---- MODULE Spec2Model ----
(***************************************************************************)
(* Polymarket copy-trading bot: the trade-copy pipeline.                   *)
(*                                                                         *)
(*   index.ts              PolymarketCopyBot (orchestrator, handleNewTrade)*)
(*   monitor.ts            TradeMonitor (REST polling)                     *)
(*   websocket-monitor.ts  WebSocketMonitor (push feed)                    *)
(*   test-api-creds.ts     RiskManager (lines 53-113)                      *)
(*   unnamed/part_001      PositionTracker                                 *)
(*   trader.ts             TradeExecutor (sizing, retry)                   *)
(*                                                                         *)
(* Units.  Money is counted in cents, prices in hundredths (0.50 = 50),    *)
(* shares in 1/10000 share.  Time is epoch milliseconds, scaled: the       *)
(* process starts at StartSecond seconds, so epoch seconds are small       *)
(* numbers below MsThreshold and epoch milliseconds lie above it, as real  *)
(* epoch seconds (1.7e9) lie below 1e12 and real milliseconds above.       *)
(*                                                                         *)
(* JavaScript runs one task at a time: an action of this model is one task *)
(* (a timer, a socket event, a network response) run up to the point where *)
(* every continuation it started waits for I/O.                            *)
(***************************************************************************)
EXTENDS Integers, Sequences, FiniteSets, TLC

\* ------------------------------------------------------------------ bounds

\* trades the orchestrator accepts (stats.tradesDetected) in one run
MaxDetected == 4
\* last second of the clock
MaxSecond == 4

\* ------------------------------------------------------- program constants

\* monitor.ts:61, websocket-monitor.ts:264: seconds to milliseconds
MsPerSec == 1000
\* websocket-monitor.ts:264: a timestamp below this is taken as seconds
\* (1_000_000_000_000 in the source; scaled with the clock, see Units)
MsThreshold == MsPerSec
\* trader.ts:173: Math.round(size * 100) / 100
CentsPerDollar == 100
\* trader.ts:183: Math.round(shares * 10000) / 10000
SharesScale == 10000
\* index.ts:18 maxProcessedTrades (10000 in the source; scaled so that a run
\* of MaxDetected trades reaches the ceiling: a trade adds two keys)
maxProcessedTrades == 4
\* monitor.ts:120 and monitor.ts:122 (10000 and 5000 in the source, scaled)
maxProcessedHashes == 4
keepProcessedHashes == 2
\* monitor.ts:36 limit, the page size asked of the activity feed (100 in the
\* source, scaled)
limit == 2
\* trader.ts:39 RETRY_CONFIG.maxAttempts
maxAttempts == 3
\* websocket-monitor.ts:39 maxReconnectAttempts (10 in the source, scaled)
maxReconnectAttempts == 2
\* websocket-monitor.ts:40 reconnectDelay, ms
reconnectDelay == 1000
\* the second in which the process starts (Date.now() at index.ts:49)
StartSecond == 2

\* ------------------------------------------------------------------- data

Tokens == {"A", "B"}

NoHash == <<"none", 0>>

\* The target wallet's trades on the venue.  hash: transaction hash; ts: the
\* time of the trade in ms; size: shares traded; usdcSize: the notional the
\* activity feed reports (0: the feed omits the field).
VenueTrades ==
  { [hash |-> 1, ts |-> 1500, asset |-> "A", side |-> "BUY",
     price |-> 50, size |-> 300000, usdcSize |-> 0],
    [hash |-> 2, ts |-> 3000, asset |-> "A", side |-> "SELL",
     price |-> 50, size |-> 300000, usdcSize |-> 150000],
    [hash |-> 3, ts |-> 3500, asset |-> "A", side |-> "BUY",
     price |-> 50, size |-> 600000, usdcSize |-> 300000],
    [hash |-> 4, ts |-> 4000, asset |-> "A", side |-> "BUY",
     price |-> 50, size |-> 300000, usdcSize |-> 0] }

Min(a, b) == IF a <= b THEN a ELSE b
Max(a, b) == IF a >= b THEN a ELSE b

\* Math.round of a / b for a >= 0, b > 0 (halves go up)
RoundDiv(a, b) == (2 * a + b) \div (2 * b)

InSeq(x, s) == \E i \in 1..Len(s) : s[i] = x

RECURSIVE SeqToSet(_)
SeqToSet(s) == IF s = <<>> THEN {} ELSE {Head(s)} \cup SeqToSet(Tail(s))

\* Set.add: insertion order is kept, a present value is not added again
SetAdd(s, x) == IF InSeq(x, s) THEN s ELSE Append(s, x)

\* Array.prototype.slice(-n): the last n elements; slice(-0) is slice(0)
SliceLast(s, n) ==
  IF n = 0 \/ n >= Len(s) THEN s ELSE SubSeq(s, Len(s) - n + 1, Len(s))

\* ------------------------------------------------------- feed normalisation

\* an activity-feed record of a venue trade: the feed reports whole seconds
ApiRecord(v) ==
  [transactionHash |-> v.hash, timestamp |-> v.ts \div MsPerSec,
   asset |-> v.asset, side |-> v.side, price |-> v.price,
   usdcSize |-> v.usdcSize, size |-> v.size]

parseDataApiTrade(apiTrade) ==
  [txHash    |-> IF apiTrade.transactionHash # 0
                 THEN <<"tx", apiTrade.transactionHash>>
                 ELSE <<"trade", apiTrade.timestamp>>,
   timestamp |-> apiTrade.timestamp * MsPerSec,
   tokenId   |-> apiTrade.asset,
   side      |-> apiTrade.side,
   price     |-> apiTrade.price,
   size      |-> IF apiTrade.usdcSize # 0 THEN apiTrade.usdcSize ELSE apiTrade.size]

\* a last_trade_price message of a venue trade; form: how the venue stamps it
WsMessageOf(v, form, withTarget) ==
  [asset_id |-> v.asset, side |-> v.side, price |-> v.price, size |-> v.size,
   timestamp |-> CASE form = "ms"  -> v.ts
                   [] form = "sec" -> v.ts \div MsPerSec
                   [] OTHER        -> 0,
   involvesTarget |-> withTarget]

\* websocket-monitor.ts:263-275, the Trade built from a message at time t
wsTrade(message, t) ==
  LET rawTimestamp == IF message.timestamp # 0 THEN message.timestamp ELSE t
      normalizedTimestamp ==
        IF rawTimestamp < MsThreshold THEN rawTimestamp * MsPerSec ELSE rawTimestamp
  IN [txHash    |-> <<"ws", t>>,
      timestamp |-> normalizedTimestamp,
      tokenId   |-> message.asset_id,
      side      |-> message.side,
      price     |-> message.price,
      size      |-> message.size]

\* ------------------------------------------------------------ orchestrator

getTradeKeys(trade) ==
  LET fallbackKey ==
        <<"fb", trade.tokenId, trade.side, trade.size, trade.price, trade.timestamp>>
  IN IF trade.txHash # NoHash THEN <<trade.txHash, fallbackKey>> ELSE <<fallbackKey>>

\* a pruning that keeps the oldest half
pruneProcessedTradesOldest(processed) ==
  IF Len(processed) <= maxProcessedTrades
  THEN processed
  ELSE SubSeq(processed, 1, maxProcessedTrades \div 2)

\* index.ts:220-227
pruneProcessedTrades(processed) ==
  IF Len(processed) <= maxProcessedTrades
  THEN processed
  ELSE SliceLast(processed, maxProcessedTrades \div 2)

\* ---------------------------------------------------------------- executor

calculateCopySize(cfg, originalSize) ==
  LET scaled    == originalSize * cfg.positionSizeMultiplierPct
      capped    == Min(scaled, cfg.maxTradeSize * 100)
      marketMin == IF cfg.orderType \in {"FOK", "FAK"}
                   THEN CentsPerDollar ELSE cfg.minTradeSize
      floored   == Max(capped, marketMin * 100)
  IN RoundDiv(floored, 100)

calculateSharesFromNotional(notional, price) ==
  RoundDiv(notional * SharesScale, price)

\* -------------------------------------------------------------------- risk

getNotional(positions, tokenId) ==
  IF tokenId \in DOMAIN positions THEN positions[tokenId].notional ELSE 0

\* a risk manager that also rejects a trade that reaches a cap exactly
checkTradeStrict(cfg, session, positions, trade, copyNotional) ==
  IF copyNotional <= 0 THEN FALSE
  ELSE IF cfg.maxSessionNotional > 0
          /\ session + copyNotional >= cfg.maxSessionNotional THEN FALSE
  ELSE IF cfg.maxPerMarketNotional > 0
          /\ getNotional(positions, trade.tokenId) + copyNotional
               >= cfg.maxPerMarketNotional THEN FALSE
  ELSE TRUE

\* a risk manager that allows everything
checkTradeAllowAll(cfg, session, positions, trade, copyNotional) == TRUE

checkTrade(cfg, session, positions, trade, copyNotional) ==
  IF copyNotional <= 0 THEN FALSE
  ELSE IF cfg.maxSessionNotional > 0
          /\ session + copyNotional > cfg.maxSessionNotional THEN FALSE
  ELSE IF cfg.maxPerMarketNotional > 0
          /\ getNotional(positions, trade.tokenId) + copyNotional
               > cfg.maxPerMarketNotional THEN FALSE
  ELSE TRUE

Abs(x) == IF x < 0 THEN -x ELSE x

\* a position tracker that does not clamp at zero
positionsRecordFillUnclamped(positions, tokenId, notional, shares, side) ==
  LET existing     == IF tokenId \in DOMAIN positions
                      THEN positions[tokenId]
                      ELSE [shares |-> 0, notional |-> 0, avgPrice |-> <<0, 1>>]
      sign         == IF side = "BUY" THEN 1 ELSE -1
      nextShares   == existing.shares + shares * sign
      nextNotional == existing.notional + notional * sign
      updated      == [shares   |-> nextShares,
                       notional |-> nextNotional,
                       avgPrice |-> IF nextShares # 0
                                    THEN <<Abs(nextNotional), Abs(nextShares)>>
                                    ELSE <<0, 1>>]
  IN [t \in DOMAIN positions \cup {tokenId} |->
        IF t = tokenId THEN updated ELSE positions[t]]

\* a position tracker that keeps the last fill only
positionsRecordFillLast(positions, tokenId, notional, shares, side) ==
  [t \in DOMAIN positions \cup {tokenId} |->
     IF t = tokenId
     THEN [shares |-> shares, notional |-> notional,
           avgPrice |-> IF shares # 0 THEN <<notional, shares>> ELSE <<0, 1>>]
     ELSE positions[t]]

\* PositionTracker.recordFill; avgPrice is kept as the fraction num / den
positionsRecordFill(positions, tokenId, notional, shares, side) ==
  LET existing     == IF tokenId \in DOMAIN positions
                      THEN positions[tokenId]
                      ELSE [shares |-> 0, notional |-> 0, avgPrice |-> <<0, 1>>]
      sign         == IF side = "BUY" THEN 1 ELSE -1
      nextShares   == existing.shares + shares * sign
      nextNotional == existing.notional + notional * sign
      updated      == [shares   |-> Max(0, nextShares),
                       notional |-> Max(0, nextNotional),
                       avgPrice |-> IF nextShares # 0
                                    THEN <<Abs(nextNotional), Abs(nextShares)>>
                                    ELSE <<0, 1>>]
  IN [t \in DOMAIN positions \cup {tokenId} |->
        IF t = tokenId THEN updated ELSE positions[t]]



\* ------------------------------------------------------------------- state

VARIABLES
  config,                 \* config.ts: the configuration read at startup
  now,                    \* Date.now()
  botStartTime,           \* index.ts:17
  processedTrades,        \* index.ts:16, a Set in insertion order
  stats,                  \* index.ts:19-24
  inflight,               \* handleNewTrade invocations suspended at an await
  sessionNotional,        \* RiskManager.sessionNotional
  positions,              \* PositionTracker.positions
  lastProcessedTimestamp, \* monitor.ts:18
  processedTradeIds,      \* monitor.ts:19, a Set in insertion order
  poll,                   \* the loop of pollForNewTrades, and what its last run did
  ws,                     \* the fields of WebSocketMonitor
  execLog,                \* history: the invocations of executeCopyTrade
  evicted,                \* history: keys pruneProcessedTrades has dropped
  discarded,              \* history: why handleNewTrade has returned at once
  aborted,                \* history: invocations ended by a throw at index.ts:135
  fills,                  \* history: the notionals given to RiskManager.recordFill
  lastCheck,              \* history, kept by SpecRisk: the last checkTrade call
  retry,                  \* SpecRetry: one call of executeWithRetry
  probe                   \* the last call of a function run on its own

vars == <<config, now, botStartTime, processedTrades, stats, inflight,
          sessionNotional, positions, lastProcessedTimestamp, processedTradeIds,
          poll, ws, execLog, evicted, discarded, aborted, fills, lastCheck,
          retry, probe>>

\* config.ts:11-48 with the values of one deployment: multiplier 0.1, at most
\* $300 a copy, both caps $500, market channel
Deployment ==
  [positionSizeMultiplierPct |-> 10, maxTradeSize |-> 30000,
   minTradeSize |-> 100, orderType |-> "FOK",
   maxSessionNotional |-> 50000, maxPerMarketNotional |-> 50000,
   useWebSocket |-> TRUE, channel |-> "market"]

\* USE_WEBSOCKET is set or not (config.ts:9)
Configs == { [Deployment EXCEPT !.useWebSocket = u] : u \in BOOLEAN }

NoCheck == [called |-> FALSE]

\* executeWithRetry not called
NoRetry == [pc |-> "idle"]

\* no function called
NoProbe == [fn |-> "none"]

\* The poll loop at rest, before its first run.  batch: the sorted trades not
\* yet looked at; waiting: the loop awaits a callback; threw: that callback
\* threw.  History of the run: handed, the trades given to the callback;
\* startMark, the watermark when it began; distinct, the response had no
\* two equal timestamps; reordered, the response was not in ascending order;
\* passedOver, some run skipped a trade newer than its startMark because a
\* later trade had been handed before it.
NoPoll == [waiting |-> FALSE, batch |-> <<>>, threw |-> FALSE, handed |-> <<>>,
           startMark |-> 0, distinct |-> FALSE, reordered |-> FALSE,
           passedOver |-> FALSE]

\* the state when initialize() has returned (index.ts:44-90): no position
\* found at startup, no WS_ASSET_IDS configured, so the push monitor waits
\* unconnected
Started ==
  /\ now = StartSecond * MsPerSec
  /\ botStartTime = StartSecond * MsPerSec
  /\ processedTrades = <<>>
  /\ stats = [tradesDetected |-> 0, tradesCopied |-> 0, tradesFailed |-> 0,
              totalVolume |-> 0]
  /\ inflight = {}
  /\ sessionNotional = 0
  /\ positions = [t \in {} |-> 0]
  /\ lastProcessedTimestamp = StartSecond * MsPerSec
  /\ processedTradeIds = <<>>
  /\ poll = NoPoll
  /\ ws = [isConnected |-> FALSE, sock |-> "null", connectPromise |-> FALSE,
           subscribedAssets |-> {}, reconnectAttempts |-> 0, timers |-> 0,
           timerWaiters |-> 0, sent |-> {}]
  /\ execLog = {}
  /\ evicted = {}
  /\ discarded = {}
  /\ aborted = {}
  /\ fills = <<>>
  /\ lastCheck = NoCheck
  /\ retry = NoRetry
  /\ probe = NoProbe

Init == config \in Configs /\ Started

\* The mutable state as one record, for the operators that compute a task's
\* effect; over: the task would detect more than MaxDetected trades.
Cur ==
  [processedTrades |-> processedTrades, stats |-> stats, inflight |-> inflight,
   sessionNotional |-> sessionNotional, positions |-> positions,
   lastProcessedTimestamp |-> lastProcessedTimestamp,
   processedTradeIds |-> processedTradeIds, poll |-> poll, ws |-> ws,
   execLog |-> execLog, evicted |-> evicted, discarded |-> discarded,
   aborted |-> aborted, fills |-> fills, over |-> FALSE]

Becomes(st) ==
  /\ ~st.over
  /\ processedTrades' = st.processedTrades
  /\ stats' = st.stats
  /\ inflight' = st.inflight
  /\ sessionNotional' = st.sessionNotional
  /\ positions' = st.positions
  /\ lastProcessedTimestamp' = st.lastProcessedTimestamp
  /\ processedTradeIds' = st.processedTradeIds
  /\ poll' = st.poll
  /\ ws' = st.ws
  /\ execLog' = st.execLog
  /\ evicted' = st.evicted
  /\ discarded' = st.discarded
  /\ aborted' = st.aborted
  /\ fills' = st.fills
  /\ UNCHANGED <<config, now, botStartTime, lastCheck, retry, probe>>

\* ------------------------------------------------------- push monitor, sync

\* connect(): a new socket, nothing sent on it yet
connect(w) == [w EXCEPT !.sock = "connecting", !.sent = {}]

\* ensureConnected() up to its await; pending: the caller waits for the open
ensureConnected(w) ==
  IF w.isConnected THEN [ws |-> w, pending |-> FALSE]
  ELSE IF ~w.connectPromise
       THEN [ws |-> [connect(w) EXCEPT !.connectPromise = TRUE], pending |-> TRUE]
       ELSE [ws |-> w, pending |-> TRUE]

hasSubscriptions(w) == w.subscribedAssets # {}

\* subscribeToMarket() up to its await
subscribeToMarket(cfg, w, tokenId) ==
  IF cfg.channel # "market" THEN [ws |-> w, pending |-> FALSE]
  ELSE IF tokenId \in w.subscribedAssets THEN [ws |-> w, pending |-> FALSE]
  ELSE LET w1 == [w EXCEPT !.subscribedAssets = @ \cup {tokenId}]
       IN IF ~w1.isConnected \/ w1.sock = "null"
          THEN ensureConnected(w1)
          ELSE [ws |-> [w1 EXCEPT !.sent = @ \cup {tokenId}], pending |-> FALSE]

\* a reconnect that never gives up
attemptReconnectNoCeiling(w, ceiling) ==
  [w EXCEPT !.reconnectAttempts = @ + 1, !.timers = @ + 1]

\* attemptReconnect() under a given ceiling: one more timer unless the
\* ceiling is reached
attemptReconnectWithin(w, ceiling) ==
  IF w.reconnectAttempts >= ceiling THEN w
  ELSE [w EXCEPT !.reconnectAttempts = @ + 1, !.timers = @ + 1]

attemptReconnect(w) == attemptReconnectWithin(w, maxReconnectAttempts)

\* ------------------------------------------------------- handleNewTrade

Activation(id, trade, src) ==
  [id |-> id, trade |-> trade, src |-> src, pc |-> "subscribe", attempt |-> 0,
   copyNotional |-> 0]

\* a handler without the start-time guard
predatesStartNever(trade, start) == FALSE

\* index.ts:105-107
predatesStart(trade, start) == trade.timestamp # 0 /\ trade.timestamp < start

\* a handler that never finds a key in the ledger
isDuplicateNever(trade, processed) == FALSE

\* index.ts:109-112
isDuplicate(trade, processed) ==
  \E i \in 1..Len(getTradeKeys(trade)) : InSeq(getTradeKeys(trade)[i], processed)

\* a handler without the BUY-only safeguard
isSellSkipNever(trade) == FALSE

\* index.ts:129-132
isSellSkip(trade) == trade.side = "SELL"

\* index.ts:114-116
RECURSIVE addKeys(_, _)
addKeys(processed, keys) ==
  IF keys = <<>> THEN processed
  ELSE addKeys(SetAdd(processed, Head(keys)), Tail(keys))

\* index.ts:138-146: size the copy, ask the risk manager, and on approval
\* call executeCopyTrade, which suspends at its first network call
admit(st, a) ==
  LET copyNotional == calculateCopySize(config, a.trade.size)
      allowed      == checkTrade(config, st.sessionNotional, st.positions,
                                 a.trade, copyNotional)
      started      == [a EXCEPT !.pc = "exec", !.attempt = 1,
                                !.copyNotional = copyNotional]
  IN IF allowed
     THEN [st EXCEPT !.inflight = (@ \ {a}) \cup {started},
                     !.execLog = @ \cup {[id |-> a.id, trade |-> a.trade,
                                           src |-> a.src]}]
     ELSE [st EXCEPT !.inflight = @ \ {a}]

\* handleNewTrade(trade) from its call to the point where it returns or
\* suspends (index.ts:104-146)
handleNewTrade(st, trade, src) ==
  IF predatesStart(trade, botStartTime)
  THEN [st EXCEPT !.discarded = @ \cup {"old"}]
  ELSE IF isDuplicate(trade, st.processedTrades)
  THEN [st EXCEPT !.discarded = @ \cup {"duplicate"}]
  ELSE IF st.stats.tradesDetected >= MaxDetected THEN [st EXCEPT !.over = TRUE]
  ELSE
    LET added  == addKeys(st.processedTrades, getTradeKeys(trade))
        pruned == pruneProcessedTrades(added)
        a0     == Activation(st.stats.tradesDetected + 1, trade, src)
        st1    == [st EXCEPT !.processedTrades = pruned,
                             !.evicted = @ \cup (SeqToSet(added) \ SeqToSet(pruned)),
                             !.stats.tradesDetected = @ + 1]
    IN IF isSellSkip(trade) THEN st1
       ELSE LET sub == IF config.useWebSocket
                       THEN subscribeToMarket(config, st1.ws, trade.tokenId)
                       ELSE [ws |-> st1.ws, pending |-> FALSE]
                st2 == [st1 EXCEPT !.ws = sub.ws, !.inflight = @ \cup {a0}]
            IN IF sub.pending THEN st2 ELSE admit(st2, a0)

\* ------------------------------------------------------------ REST monitor

\* Array.prototype.sort((a, b) => a.timestamp - b.timestamp): stable
RECURSIVE insertByTimestamp(_, _)
insertByTimestamp(sorted, t) ==
  IF sorted = <<>> THEN <<t>>
  ELSE IF Head(sorted).timestamp <= t.timestamp
       THEN <<Head(sorted)>> \o insertByTimestamp(Tail(sorted), t)
       ELSE <<t>> \o sorted

\* a monitor that keeps the order of the response
sortByTimestampNone(trades) == trades

RECURSIVE sortByTimestamp(_)
sortByTimestamp(trades) ==
  IF trades = <<>> THEN <<>>
  ELSE insertByTimestamp(sortByTimestamp(SubSeq(trades, 1, Len(trades) - 1)),
                         trades[Len(trades)])

pruneProcessedHashes(ids) ==
  IF Len(ids) > maxProcessedHashes THEN SliceLast(ids, keepProcessedHashes) ELSE ids

\* monitor.ts:91-116 and index.ts:95: the loop over the sorted trades, run
\* until a callback suspends (the loop awaits it) or the loop ends: then
\* start() prunes the seen-set and sleeps.  A callback that threw ends the
\* loop through the catch of monitor.ts:114.
RECURSIVE pollLoop(_)
pollLoop(st) ==
  IF st.over \/ st.poll.waiting THEN st
  ELSE IF st.poll.batch = <<>> \/ st.poll.threw
  THEN [st EXCEPT !.processedTradeIds = pruneProcessedHashes(@),
                  !.poll = [NoPoll EXCEPT !.handed = st.poll.handed,
                                          !.reordered = st.poll.reordered,
                                          !.passedOver = st.poll.passedOver]]
  ELSE
    LET trade == Head(st.poll.batch)
    IN IF InSeq(trade.txHash, st.processedTradeIds)
          \/ trade.timestamp <= st.lastProcessedTimestamp
       THEN pollLoop([st EXCEPT
                        !.poll.batch = Tail(@),
                        !.poll.passedOver =
                           @ \/ (st.poll.distinct
                                   /\ trade.timestamp > st.poll.startMark)])
       ELSE
         LET st1 == [st EXCEPT
                       !.processedTradeIds = SetAdd(@, trade.txHash),
                       !.lastProcessedTimestamp = Max(@, trade.timestamp),
                       !.poll.batch = Tail(@),
                       !.poll.handed = Append(@, trade)]
             st2 == handleNewTrade(st1, trade, "rest")
         IN pollLoop([st2 EXCEPT !.poll.waiting =
                        \E a \in st2.inflight : a.src = "rest"])

\* the caller of an invocation that ended resumes: the poll loop goes on
\* (monitor.ts:108), handleTradeMessage has nothing left to do
resumeCaller(st, a, threw) ==
  IF a.src = "rest"
  THEN pollLoop([st EXCEPT !.poll.waiting = FALSE, !.poll.threw = threw])
  ELSE st

\* what the activity feed may answer: trades of the wallet that have happened,
\* each once, in any order, at most limit of them
Responses ==
  LET happened == {v \in VenueTrades : v.ts <= now}
  IN UNION { { r \in [1..n -> happened] : \A i, j \in 1..n : i # j => r[i] # r[j] }
             : n \in 0..limit }

\* monitor.ts:79-87: a poll starts when the last one is over; the fetch
\* answers (a failed fetch answers like an empty one, monitor.ts:52-55), the
\* trades are parsed and sorted, and the loop runs
PollFetch(resp) ==
  /\ ~poll.waiting
  /\ LET trades == [i \in 1..Len(resp) |-> parseDataApiTrade(ApiRecord(resp[i]))]
         n == Len(trades)
         st0 == [Cur EXCEPT !.poll =
                   [waiting |-> FALSE,
                    batch |-> sortByTimestamp(trades),
                    threw |-> FALSE,
                    handed |-> <<>>,
                    startMark |-> lastProcessedTimestamp,
                    distinct |-> \A i, j \in 1..n :
                                   i # j => trades[i].timestamp # trades[j].timestamp,
                    reordered |-> \E i, j \in 1..n :
                                    i < j /\ trades[i].timestamp > trades[j].timestamp,
                    passedOver |-> poll.passedOver]]
     IN Becomes(pollLoop(st0))

\* ------------------------------------------------------ executeCopyTrade

\* prices the validated order price takes (within [0.01, 0.99])
ExecPrices == {50}

\* a success path that books the target's trade size, not the copy
recordFillOriginalSize(st, a, price) ==
  LET copyShares == calculateSharesFromNotional(a.copyNotional, price)
  IN [st EXCEPT !.sessionNotional = @ + a.trade.size,
                !.fills = Append(@, a.trade.size),
                !.positions = positionsRecordFill(@, a.trade.tokenId,
                                a.trade.size, copyShares, a.trade.side),
                !.stats.tradesCopied = @ + 1,
                !.stats.totalVolume = @ + a.copyNotional,
                !.inflight = @ \ {a}]

\* a fill that reaches the risk manager but not the session statistics
recordFillNoVolume(st, a, price) ==
  LET copyShares == calculateSharesFromNotional(a.copyNotional, price)
  IN [st EXCEPT !.sessionNotional = @ + a.copyNotional,
                !.fills = Append(@, a.copyNotional),
                !.positions = positionsRecordFill(@, a.trade.tokenId,
                                a.copyNotional, copyShares, a.trade.side),
                !.stats.tradesCopied = @ + 1,
                !.inflight = @ \ {a}]

\* index.ts:147-155 and RiskManager.recordFill
recordFill(st, a, price) ==
  LET copyShares == calculateSharesFromNotional(a.copyNotional, price)
  IN [st EXCEPT !.sessionNotional = @ + a.copyNotional,
                !.fills = Append(@, a.copyNotional),
                !.positions = positionsRecordFill(@, a.trade.tokenId,
                                a.copyNotional, copyShares, a.trade.side),
                !.stats.tradesCopied = @ + 1,
                !.stats.totalVolume = @ + a.copyNotional,
                !.inflight = @ \ {a}]

\* the order is accepted
ExecSucceed(a, price) ==
  /\ a \in inflight /\ a.pc = "exec"
  /\ Becomes(resumeCaller(recordFill(Cur, a, price), a, FALSE))

\* trader.ts:303-326: a retryable error below the attempt ceiling
ExecRetry(a) ==
  /\ a \in inflight /\ a.pc = "exec"
  /\ a.attempt < maxAttempts
  /\ Becomes([Cur EXCEPT !.inflight = (@ \ {a}) \cup {[a EXCEPT !.attempt = @ + 1]}])

\* a catch block that does not count the failure
failCopyUncounted(st, a) ==
  [st EXCEPT !.inflight = @ \ {a}]

\* index.ts:158-165: the catch block of handleNewTrade
failCopy(st, a) ==
  [st EXCEPT !.stats.tradesFailed = @ + 1,
             !.inflight = @ \ {a}]

\* trader.ts:306-311 and index.ts:158-165: the error reaches the orchestrator
ExecFail(a) ==
  /\ a \in inflight /\ a.pc = "exec"
  /\ Becomes(resumeCaller(failCopy(Cur, a), a, FALSE))

\* ------------------------------------------------------------ push monitor

\* websocket-monitor.ts:228-286: a last_trade_price event on the open socket
WsMessage(v, form, withTarget) ==
  /\ ws.isConnected /\ ws.sock = "open"
  /\ v.ts <= now /\ v.asset \in ws.sent
  /\ LET message == WsMessageOf(v, form, withTarget)
     IN IF ~message.involvesTarget
        THEN UNCHANGED vars
        ELSE Becomes(handleNewTrade(Cur, wsTrade(message, now), "ws"))

RECURSIVE admitAll(_, _)
admitAll(st, waiting) ==
  IF waiting = {} THEN st
  ELSE LET a == CHOOSE x \in waiting : \A y \in waiting : x.id <= y.id
       IN admitAll(admit(st, a), waiting \ {a})

\* websocket-monitor.ts:80-87 and 378-393: the socket opens; every caller of
\* ensureConnected resumes: handleNewTrade goes on to its risk check
\* (index.ts:138-146), a reconnect timer finds every target registered
WsOpen ==
  /\ ws.sock = "connecting"
  /\ LET waiting == {a \in inflight : a.pc = "subscribe"}
         opened  == [ws EXCEPT !.isConnected = TRUE, !.sock = "open",
                               !.reconnectAttempts = 0,
                               !.connectPromise = FALSE,
                               !.sent = ws.subscribedAssets,
                               !.timerWaiters = 0]
         st1     == admitAll([Cur EXCEPT !.ws = opened], waiting)
     IN Becomes(IF (\E a \in waiting : a.src = "rest")
                   /\ ~\E b \in st1.inflight : b.src = "rest"
                THEN pollLoop([st1 EXCEPT !.poll.waiting = FALSE])
                ELSE st1)

RECURSIVE attemptReconnectTimes(_, _)
attemptReconnectTimes(w, n) ==
  IF n = 0 THEN w ELSE attemptReconnectTimes(attemptReconnect(w), n - 1)

\* websocket-monitor.ts:93-107: the connection attempt fails: 'error' rejects
\* the connect promise and 'close' follows in the same task; every caller of
\* ensureConnected gets the rejection: subscribeToMarket rethrows it into
\* handleNewTrade (index.ts:135), a reconnect timer schedules again (339-342)
WsConnectFail ==
  /\ ws.sock = "connecting"
  /\ LET waiting == {a \in inflight : a.pc = "subscribe"}
         closed  == [ws EXCEPT !.isConnected = FALSE, !.sock = "null",
                               !.connectPromise = FALSE, !.timerWaiters = 0]
         calls   == (IF hasSubscriptions(ws) THEN 1 ELSE 0) + ws.timerWaiters
         st0     == [Cur EXCEPT !.ws = attemptReconnectTimes(closed, calls),
                                !.inflight = @ \ waiting,
                                !.aborted = @ \cup waiting]
     IN Becomes(IF \E a \in waiting : a.src = "rest"
                THEN pollLoop([st0 EXCEPT !.poll.waiting = FALSE,
                                          !.poll.threw = TRUE])
                ELSE st0)

\* websocket-monitor.ts:93-102: the open socket closes
WsClose ==
  /\ ws.sock = "open"
  /\ LET closed == [ws EXCEPT !.isConnected = FALSE, !.sock = "null"]
     IN Becomes([Cur EXCEPT !.ws = IF hasSubscriptions(closed)
                                   THEN attemptReconnect(closed) ELSE closed])

\* websocket-monitor.ts:326-338: a reconnect timer fires
ReconnectTimer ==
  /\ ws.timers > 0
  /\ LET ec == ensureConnected([ws EXCEPT !.timers = @ - 1])
     IN Becomes([Cur EXCEPT !.ws = IF ec.pending
                                   THEN [ec.ws EXCEPT !.timerWaiters = @ + 1]
                                   ELSE ec.ws])

\* ------------------------------------------------------------------- clock

Tick ==
  /\ now < MaxSecond * MsPerSec
  /\ now' = now + MsPerSec
  /\ UNCHANGED <<config, botStartTime, processedTrades, stats, inflight,
                 sessionNotional, positions, lastProcessedTimestamp,
                 processedTradeIds, poll, ws, execLog, evicted, discarded,
                 aborted, fills, lastCheck, retry, probe>>

\* ----------------------------------------------------------- specification

Next ==
  \/ Tick
  \/ \E resp \in Responses : PollFetch(resp)
  \/ \E v \in VenueTrades, form \in {"ms", "sec"}, withTarget \in BOOLEAN :
       WsMessage(v, form, withTarget)
  \/ WsOpen
  \/ WsConnectFail
  \/ WsClose
  \/ ReconnectTimer
  \/ \E a \in inflight, price \in ExecPrices : ExecSucceed(a, price)
  \/ \E a \in inflight : ExecRetry(a)
  \/ \E a \in inflight : ExecFail(a)

Spec == Init /\ [][Next]_vars

\* ------------------------------------------------------------- properties

Keys(trade) == SeqToSet(getTradeKeys(trade))

\* the Trade the REST monitor builds of a venue trade
restTradeOf(v) == parseDataApiTrade(ApiRecord(v))

\* trade is what the push monitor builds of venue trade v, at whatever time
IsWsTradeOf(trade, v) ==
  \E form \in {"ms", "sec"} :
    trade = [wsTrade(WsMessageOf(v, form, TRUE), 0) EXCEPT !.txHash = trade.txHash]

\* C1 (as stated): executeCopyTrade is invoked at most once per identity
\* key, for delivery sequences of any length: no two invocations carry a
\* common key.
C1_AtMostOncePerKey ==
  \A e1, e2 \in execLog : e1 # e2 => Keys(e1.trade) \cap Keys(e2.trade) = {}

\* C1 (amended): executeCopyTrade is invoked at most once per identity key
\* as long as pruneProcessedTrades has not dropped the key from the ledger:
\* two invocations share only keys that were evicted.
C1_AtMostOncePerKeptKey ==
  \A e1, e2 \in execLog :
    e1 # e2 => (Keys(e1.trade) \cap Keys(e2.trade)) \subseteq evicted

\* a trade was executed, nothing was evicted, and a delivery was discarded
\* as a duplicate
C1_DuplicateDiscarded ==
  /\ execLog # {}
  /\ evicted = {}
  /\ "duplicate" \in discarded

\* C2: a venue trade observed by both monitors gets at most one execution
\* attempt (the ledger having lost no key): no venue trade has an invocation
\* of executeCopyTrade from the REST feed and another from the push feed.
C2_OneAttemptAcrossFeeds ==
  evicted = {} =>
    \A v \in VenueTrades :
      ~ \E e1, e2 \in execLog :
          /\ e1.src = "rest" /\ e1.trade = restTradeOf(v)
          /\ e2.src = "ws" /\ IsWsTradeOf(e2.trade, v)

\* C3: with a session cap configured, sessionNotional never exceeds it.
C3_SessionCapHolds ==
  config.maxSessionNotional > 0 => sessionNotional <= config.maxSessionNotional

\* C4: at most one handleNewTrade invocation is between its risk check and
\* its fill recording.
C4_OneTradeInExecution ==
  Cardinality({a \in inflight : a.pc = "exec"}) <= 1

\* C5: with a per-market cap configured (no position is over it at startup),
\* the tracked notional of every token stays within the cap.
C5_PerMarketCapHolds ==
  config.maxPerMarketNotional > 0 =>
    \A t \in DOMAIN positions :
      positions[t].notional <= config.maxPerMarketNotional

\* C6: executeCopyTrade is never invoked with a SELL trade, no SELL is
\* between risk check and fill, and every step that changes sessionNotional
\* or a position records the fill of a BUY.
C6_SellNeverExecuted ==
  /\ [](\A e \in execLog : e.trade.side # "SELL")
  /\ [](\A a \in inflight : a.trade.side # "SELL")
  /\ [][(sessionNotional' # sessionNotional \/ positions' # positions)
          => \E a \in inflight \ inflight' : a.pc = "exec" /\ a.trade.side = "BUY"]_vars

\* a SELL was detected (its composite key is in the ledger) by the push
\* monitor and nothing is filled
C6_SellDetected ==
  /\ \E i \in 1..Len(processedTrades) :
        processedTrades[i][1] = "ws"
  /\ \E i \in 1..Len(processedTrades) :
        processedTrades[i][1] = "fb" /\ processedTrades[i][3] = "SELL"
  /\ stats.tradesDetected = 2
  /\ execLog # {}
  /\ sessionNotional = 0

\* C7: executeCopyTrade is never invoked for a trade with
\* timestamp < botStartTime, whichever feed delivers it.
C7_NoTradeBeforeStart ==
  /\ \A e \in execLog : e.trade.timestamp >= botStartTime
  /\ \A a \in inflight : a.trade.timestamp >= botStartTime

\* a trade older than the start was delivered and dropped, nothing else
\* was detected since the first copy
C7_OldTradeDropped ==
  /\ "old" \in discarded
  /\ stats.tradesDetected = 1
  /\ \A e \in execLog : e.trade.timestamp >= botStartTime

\* C8: a failure of the push channel never keeps a BUY detected by REST
\* polling from its risk check: no handleNewTrade invocation for a REST BUY
\* is ended by the rejection of subscribeToMarket.
C8_RestBuyReachesRiskCheck ==
  \A a \in aborted : ~(a.src = "rest" /\ a.trade.side = "BUY")

Ascending(trades) ==
  \A i, j \in 1..Len(trades) : i < j => trades[i].timestamp < trades[j].timestamp

\* C9: within one REST poll the trades of a response with distinct
\* timestamps, returned in any order, are handed to the handler in strictly
\* ascending timestamp order, none being passed over for a newer one, and
\* each handler call completes before the next begins: the only invocation
\* from the REST feed in flight is for the trade handed last, and the loop
\* waits for it.
C9_AscendingOneAtATime ==
  /\ Ascending(poll.handed)
  /\ ~poll.passedOver
  /\ \A a \in inflight :
        a.src = "rest" =>
          /\ poll.waiting
          /\ poll.handed # <<>>
          /\ a.trade = poll.handed[Len(poll.handed)]
  /\ Cardinality({a \in inflight : a.src = "rest"}) <= 1

\* a poll whose response came newest-first has handed both its trades and
\* is over
C9_ReorderedBatchHanded ==
  /\ ~poll.waiting
  /\ poll.reordered
  /\ Len(poll.handed) = 2

\* the invocations of executeCopyTrade that have not settled yet
Executing == {a \in inflight : a.pc = "exec"}

\* this step settles the execution of a by a failure: a leaves execution
\* and no fill is recorded
FailsIn(a) ==
  /\ a \in Executing
  /\ \A b \in inflight' : b.id # a.id
  /\ fills' = fills

\* C13: a failed executeCopyTrade is contained: handleNewTrade returns
\* normally (nothing is thrown to the feed that delivered the trade),
\* tradesFailed grows by exactly one and tradesCopied not at all, and the
\* REST loop that waited for the handler goes on with the rest of its batch;
\* every invocation of executeCopyTrade is counted once, as copied or failed,
\* when it settles.
C13_FailureContained ==
  /\ [][\A a \in inflight :
          FailsIn(a) =>
            /\ stats'.tradesFailed = stats.tradesFailed + 1
            /\ stats'.tradesCopied = stats.tradesCopied
            /\ aborted' = aborted
            /\ ~poll'.threw
            /\ a.src = "rest" => (poll'.waiting \/ poll'.batch = <<>>)]_vars
  /\ [](stats.tradesCopied + stats.tradesFailed + Cardinality(Executing)
          = Cardinality(execLog))

\* the first copy failed and a BUY the REST feed delivered afterwards has
\* passed the duplicate and risk checks and is being executed
C13_ExecutingAfterFailure ==
  /\ stats.tradesFailed = 1 /\ stats.tradesCopied = 0
  /\ Cardinality(execLog) = 2
  /\ \A e \in execLog : e.src = "rest"
  /\ Cardinality(Executing) = 1

\* this step settles the execution of a, by a fill or by a failure
Settles(a) == a \in Executing /\ \A b \in inflight' : b.id # a.id

\* the copy of n fits the caps that are set
WithinCaps(n, session, market) ==
  /\ n > 0
  /\ config.maxSessionNotional > 0 => session + n <= config.maxSessionNotional
  /\ config.maxPerMarketNotional > 0 => market + n <= config.maxPerMarketNotional

\* C18: executeCopyTrade is invoked only for a trade whose copy fits the caps
\* in the risk state the check ran in, so a rejected trade is never
\* executed; and a step in which no execution settles (among them every
\* step that only runs checkTrade, allowing or rejecting) leaves
\* sessionNotional, every position and the tradesCopied and tradesFailed
\* counters unchanged.
C18_RejectionChangesNothing ==
  [][/\ \A e \in execLog' \ execLog :
          WithinCaps(calculateCopySize(config, e.trade.size), sessionNotional',
                     getNotional(positions', e.trade.tokenId))
     /\ (~ \E a \in inflight : Settles(a)) =>
          /\ sessionNotional' = sessionNotional
          /\ positions' = positions
          /\ stats'.tradesCopied = stats.tradesCopied
          /\ stats'.tradesFailed = stats.tradesFailed]_vars

\* without the push feed: a BUY of the target wallet was detected after the
\* first copy and went no further than the risk check: it is not executing,
\* was never executed, and the state is that of the first copy alone
C18_BuyRejected ==
  /\ ~config.useWebSocket
  /\ inflight = {} /\ aborted = {}
  /\ stats.tradesCopied = 1 /\ stats.tradesFailed = 0
  /\ Cardinality(execLog) = 1
  /\ \E v \in VenueTrades :
       /\ v.side = "BUY"
       /\ InSeq(restTradeOf(v).txHash, processedTrades)
       /\ \A e \in execLog : e.trade # restTradeOf(v)
  /\ Len(fills) = 1 /\ sessionNotional = fills[1]

\* this step settles the execution of a by a fill
FillsIn(a) == Settles(a) /\ fills' # fills

\* the position of a token, none being one of nothing
Held(pos, tokenId) ==
  IF tokenId \in DOMAIN pos THEN pos[tokenId]
  ELSE [shares |-> 0, notional |-> 0, avgPrice |-> <<0, 1>>]

\* C19: when executeCopyTrade succeeds, sessionNotional grows by the
\* copyNotional that was risk-checked, the position of the trade's token
\* grows by copyNotional in notional and by the copyShares that notional
\* buys at the validated price, tradesCopied grows by one, and the
\* positions of the other tokens and tradesFailed do not change.
C19_FillBooksCheckedAmount ==
  [][\A a \in inflight :
       FillsIn(a) =>
         LET n == calculateCopySize(config, a.trade.size)
         IN /\ a.copyNotional = n
            /\ sessionNotional' = sessionNotional + n
            /\ fills' = Append(fills, n)
            /\ Held(positions', a.trade.tokenId).notional
                 = Held(positions, a.trade.tokenId).notional + n
            /\ \E price \in ExecPrices :
                 Held(positions', a.trade.tokenId).shares
                   = Held(positions, a.trade.tokenId).shares
                       + RoundDiv(n * SharesScale, price)
            /\ \A t \in Tokens \ {a.trade.tokenId} :
                 Held(positions', t) = Held(positions, t)
            /\ stats'.tradesCopied = stats.tradesCopied + 1
            /\ stats'.tradesFailed = stats.tradesFailed]_vars

\* a copy of 300.00 was executed: the session and the position of token A
\* hold 300.00 and the 600 shares it bought at 0.50
C19_FirstCopyBooked ==
  /\ stats.tradesCopied = 1
  /\ fills = <<30000>>
  /\ sessionNotional = 30000
  /\ "A" \in DOMAIN positions
  /\ positions["A"].notional = 30000
  /\ positions["A"].shares = 6000000

\* trade is what one of the monitors builds of venue trade v
IsTradeOf(trade, v) == trade = restTradeOf(v) \/ IsWsTradeOf(trade, v)

\* the invocation e of executeCopyTrade has failed: it has settled and no
\* copy has succeeded
HasFailed(e) ==
  /\ stats.tradesCopied = 0
  /\ \A a \in inflight : a.id # e.id

\* C20: when executeCopyTrade fails, sessionNotional and every position are
\* unchanged and the keys of the failed trade stay in the ledger; and (the
\* ledger having lost no key) a venue trade whose copy has failed is not
\* attempted again when it is delivered again.
C20_FailedTradeNotReattempted ==
  [][/\ \A a \in inflight :
          FailsIn(a) =>
            /\ sessionNotional' = sessionNotional
            /\ positions' = positions
            /\ \A k \in Keys(a.trade) :
                 InSeq(k, processedTrades) =>
                   (InSeq(k, processedTrades') \/ k \in evicted')
     /\ evicted' = {} =>
          \A e \in execLog' \ execLog :
            ~ \E e0 \in execLog, v \in VenueTrades :
                HasFailed(e0) /\ IsTradeOf(e0.trade, v) /\ IsTradeOf(e.trade, v)]_vars

\* ------------------------------------------------- RiskManager on its own

\* last fill of a run of the risk manager
MaxFills == 3

\* what MAX_SESSION_NOTIONAL and MAX_PER_MARKET_NOTIONAL may parse to
\* (config.ts:37-38; no validation follows): negative, zero, $500
RiskCaps == {0 - 10000, 0, 50000}

\* copy notionals asked about: $0, $200, $300
RiskNotionals == {0, 20000, 30000}

RiskConfigs ==
  { [Deployment EXCEPT !.maxSessionNotional = s, !.maxPerMarketNotional = m]
      : s \in RiskCaps, m \in RiskCaps }

InitRisk == config \in RiskConfigs /\ Started

\* a BUY of the target wallet on tokenId
riskTrade(tokenId) ==
  [txHash |-> NoHash, timestamp |-> now, tokenId |-> tokenId, side |-> "BUY",
   price |-> 50, size |-> 0]

\* risk.checkTrade(trade, copyNotional) is called; lastCheck keeps the
\* arguments, the state it ran in and its answer
CallCheckTrade(tokenId, copyNotional) ==
  /\ lastCheck' = [called |-> TRUE, tokenId |-> tokenId,
                   copyNotional |-> copyNotional,
                   sessionNotional |-> sessionNotional,
                   marketNotional |-> getNotional(positions, tokenId),
                   allowed |-> checkTrade(config, sessionNotional, positions,
                                          riskTrade(tokenId), copyNotional)]
  /\ UNCHANGED <<config, now, botStartTime, processedTrades, stats, inflight,
                 sessionNotional, positions, lastProcessedTimestamp,
                 processedTradeIds, poll, ws, execLog, evicted, discarded,
                 aborted, fills, retry, probe>>

\* risk.recordFill(params) for the trade just approved (index.ts:147-153)
CallRecordFill(price) ==
  /\ lastCheck.called /\ lastCheck.allowed
  /\ Len(fills) < MaxFills
  /\ sessionNotional' = sessionNotional + lastCheck.copyNotional
  /\ positions' = positionsRecordFill(positions, lastCheck.tokenId,
                     lastCheck.copyNotional,
                     calculateSharesFromNotional(lastCheck.copyNotional, price),
                     "BUY")
  /\ fills' = Append(fills, lastCheck.copyNotional)
  /\ lastCheck' = NoCheck
  /\ UNCHANGED <<config, now, botStartTime, processedTrades, stats, inflight,
                 lastProcessedTimestamp, processedTradeIds, poll, ws, execLog,
                 evicted, discarded, aborted, retry, probe>>

NextRisk ==
  \/ \E tokenId \in Tokens, copyNotional \in RiskNotionals :
       CallCheckTrade(tokenId, copyNotional)
  \/ \E price \in ExecPrices : CallRecordFill(price)

SpecRisk == InitRisk /\ [][NextRisk]_vars

RECURSIVE SumSeq(_)
SumSeq(q) == IF q = <<>> THEN 0 ELSE Head(q) + SumSeq(Tail(q))

\* C10 (as stated): checkTrade allows exactly when n > 0 and (session cap = 0
\* or sessionNotional + n <= session cap) and (market cap = 0 or
\* notional(tokenId) + n <= market cap), sessionNotional being the sum of
\* the recorded fills.
C10_AllowedIffZeroDisables ==
  /\ sessionNotional = SumSeq(fills)
  /\ lastCheck.called =>
       (lastCheck.allowed <=>
          /\ lastCheck.copyNotional > 0
          /\ \/ config.maxSessionNotional = 0
             \/ lastCheck.sessionNotional + lastCheck.copyNotional
                  <= config.maxSessionNotional
          /\ \/ config.maxPerMarketNotional = 0
             \/ lastCheck.marketNotional + lastCheck.copyNotional
                  <= config.maxPerMarketNotional)

\* C10 (amended): the same with a cap that is zero or negative disabling its
\* dimension: checkTrade allows exactly when n > 0 and (session cap <= 0 or
\* sessionNotional + n <= session cap) and (market cap <= 0 or
\* notional(tokenId) + n <= market cap).
C10_AllowedIffNonPositiveDisables ==
  /\ sessionNotional = SumSeq(fills)
  /\ lastCheck.called =>
       (lastCheck.allowed <=>
          /\ lastCheck.copyNotional > 0
          /\ \/ config.maxSessionNotional <= 0
             \/ lastCheck.sessionNotional + lastCheck.copyNotional
                  <= config.maxSessionNotional
          /\ \/ config.maxPerMarketNotional <= 0
             \/ lastCheck.marketNotional + lastCheck.copyNotional
                  <= config.maxPerMarketNotional)

\* session cap $500, one fill of $300 recorded, a second trade of $300 is
\* rejected
C10_SecondFillRejected ==
  /\ config.maxSessionNotional = 50000
  /\ config.maxPerMarketNotional = 0
  /\ fills = <<30000>>
  /\ lastCheck.called
  /\ lastCheck.copyNotional = 30000
  /\ ~lastCheck.allowed

\* ---------------------------------------------- executeWithRetry on its own

\* words an error holds at most, message and response together, of those
\* isRetryableError looks for
MaxWords == 2

\* trader.ts:40-42 RETRY_CONFIG
initialDelay == 1000
maxDelay == 10000
backoffMultiplier == 2

\* The substrings isRetryableError looks for in error.message (lower-cased)
\* and in error.response.data.error; none contains another.  A text is
\* modelled by the set of these words it contains.
MessageWords ==
  {"unauthorized", "cloudflare", "network", "timeout", "econnreset",
   "rate limit", "502", "503", "504", "insufficient", "not enough balance",
   "allowance", "invalid", "duplicate"}

ResponseWords ==
  {"unauthorized", "cloudflare", "blocked", "rate limit", "insufficient",
   "not enough balance", "allowance", "invalid", "bad request", "duplicate"}

\* error.response.status; 0: the error carries no response
Statuses == {0, 401, 403, 500}

\* the texts of an error holding at most n of the words
RECURSIVE ErrorTexts(_)
ErrorTexts(n) ==
  IF n = 0 THEN {[msg |-> {}, data |-> {}]}
  ELSE LET fewer == ErrorTexts(n - 1)
       IN fewer
          \cup {[t EXCEPT !.msg = @ \cup {w}] : t \in fewer, w \in MessageWords}
          \cup {[t EXCEPT !.data = @ \cup {w}] : t \in fewer, w \in ResponseWords}

\* what the operation may throw: at most MaxWords of the words, and response
\* data only when there is a response
Errors ==
  { e \in { [msg |-> t.msg, data |-> t.data, status |-> st] :
              t \in ErrorTexts(MaxWords), st \in Statuses } :
      e.status = 0 => e.data = {} }

NoError == [msg |-> {}, data |-> {}, status |-> 0]

isRetryableError(error) ==
  LET errorMsg       == error.msg
      responseData   == error.data
      responseStatus == error.status
  IN IF responseStatus = 401 \/ "unauthorized" \in errorMsg
          \/ "unauthorized" \in responseData THEN FALSE
     ELSE IF responseStatus = 403 \/ "cloudflare" \in errorMsg
          \/ "cloudflare" \in responseData \/ "blocked" \in responseData THEN FALSE
     ELSE IF "network" \in errorMsg \/ "timeout" \in errorMsg
          \/ "econnreset" \in errorMsg THEN TRUE
     ELSE IF "rate limit" \in errorMsg \/ "rate limit" \in responseData THEN TRUE
     ELSE IF "502" \in errorMsg \/ "503" \in errorMsg \/ "504" \in errorMsg THEN TRUE
     ELSE IF "insufficient" \in errorMsg \/ "insufficient" \in responseData
          \/ "not enough balance" \in errorMsg
          \/ "not enough balance" \in responseData
          \/ "allowance" \in errorMsg \/ "allowance" \in responseData THEN FALSE
     ELSE IF "invalid" \in errorMsg \/ "invalid" \in responseData
          \/ "bad request" \in responseData THEN FALSE
     ELSE IF "duplicate" \in errorMsg \/ "duplicate" \in responseData THEN FALSE
     ELSE TRUE

\* a retry loop whose ceiling lets one more attempt through
surfacesLate(error, attempt) ==
  ~isRetryableError(error) \/ attempt > maxAttempts

\* trader.ts:306: the error is thrown to the caller, not retried
surfaces(error, attempt) ==
  ~isRetryableError(error) \/ attempt >= maxAttempts

RECURSIVE Pow(_, _)
Pow(b, e) == IF e = 0 THEN 1 ELSE b * Pow(b, e - 1)

\* trader.ts:314-317
retryDelay(attempt) ==
  Min(initialDelay * Pow(backoffMultiplier, attempt - 1), maxDelay)

\* executeCopyTrade calls executeWithRetry(fn): fn is invoked (attempt 1)
RetryCall ==
  /\ retry.pc = "idle"
  /\ retry' = [pc |-> "calling", attempt |-> 1, calls |-> 1, error |-> NoError,
               thrown |-> NoError, delay |-> 0]
  /\ UNCHANGED <<config, now, botStartTime, processedTrades, stats, inflight,
                 sessionNotional, positions, lastProcessedTimestamp,
                 processedTradeIds, poll, ws, execLog, evicted, discarded,
                 aborted, fills, lastCheck, probe>>

\* trader.ts:302: fn() resolves
FnResolves ==
  /\ retry.pc = "calling"
  /\ retry' = [retry EXCEPT !.pc = "returned"]
  /\ UNCHANGED <<config, now, botStartTime, processedTrades, stats, inflight,
                 sessionNotional, positions, lastProcessedTimestamp,
                 processedTradeIds, poll, ws, execLog, evicted, discarded,
                 aborted, fills, lastCheck, probe>>

\* trader.ts:303-325: fn() throws
FnThrows(error) ==
  /\ retry.pc = "calling"
  /\ retry' = IF surfaces(error, retry.attempt)
              THEN [retry EXCEPT !.pc = "threw", !.error = error,
                                 !.thrown = error]
              ELSE [retry EXCEPT !.pc = "sleeping", !.error = error,
                                 !.delay = retryDelay(retry.attempt)]
  /\ UNCHANGED <<config, now, botStartTime, processedTrades, stats, inflight,
                 sessionNotional, positions, lastProcessedTimestamp,
                 processedTradeIds, poll, ws, execLog, evicted, discarded,
                 aborted, fills, lastCheck, probe>>

\* trader.ts:325-326: the sleep is over, executeWithRetry(fn, attempt + 1);
\* the caught error and the delay are locals of the call that has ended
RetrySleepDone ==
  /\ retry.pc = "sleeping"
  /\ retry' = [retry EXCEPT !.pc = "calling", !.attempt = @ + 1,
                            !.calls = @ + 1, !.error = NoError, !.delay = 0]
  /\ UNCHANGED <<config, now, botStartTime, processedTrades, stats, inflight,
                 sessionNotional, positions, lastProcessedTimestamp,
                 processedTradeIds, poll, ws, execLog, evicted, discarded,
                 aborted, fills, lastCheck, probe>>

NextRetry ==
  \/ RetryCall
  \/ FnResolves
  \/ \E error \in Errors : FnThrows(error)
  \/ RetrySleepDone

InitRetry == config = Deployment /\ Started

SpecRetry == InitRetry /\ [][NextRetry]_vars

\* every network call of the operation answers or fails, every timer fires
SpecRetryFair == SpecRetry /\ WF_vars(NextRetry)

\* C11: an error whose message contains "insufficient" is never retried,
\* whatever else the message or the response contains: executeWithRetry never
\* sleeps for a retry after such an error.
C11_InsufficientNeverRetried ==
  retry.pc = "sleeping" => "insufficient" \notin retry.error.msg

\* a plain network timeout: nothing but "timeout" or "network" in the message
PlainTimeout(error) ==
  /\ error.msg # {} /\ error.msg \subseteq {"network", "timeout"}
  /\ error.data = {} /\ error.status = 0

\* C12: the operation is invoked at most maxAttempts times, once per attempt;
\* an error reaches the caller as it was thrown, and a network timeout
\* reaches the caller only after exactly maxAttempts invocations; every call
\* ends, returning or throwing.
C12_BoundedRetries ==
  /\ [](retry.pc # "idle" =>
          /\ retry.calls = retry.attempt
          /\ retry.calls <= maxAttempts
          /\ retry.pc = "threw" => retry.thrown = retry.error
          /\ (retry.pc = "threw" /\ PlainTimeout(retry.error))
               => retry.calls = maxAttempts)
  /\ (retry.pc = "calling" ~> retry.pc \in {"returned", "threw"})

\* three attempts timed out and the timeout reached the caller
C12_TimeoutSurfaced ==
  /\ retry.pc = "threw"
  /\ retry.calls = 3
  /\ retry.thrown = [msg |-> {"timeout"}, data |-> {}, status |-> 0]

\* ------------------------------------------- the executor's pure functions

\* everything but retry and probe
botVars ==
  <<config, now, botStartTime, processedTrades, stats, inflight,
    sessionNotional, positions, lastProcessedTimestamp, processedTradeIds,
    poll, ws, execLog, evicted, discarded, aborted, fills, lastCheck>>

\* config.trading as the environment may set it (config.ts:29-35, parseFloat
\* of the variables, no validation): multiplier in percent, sizes in cents
SizeConfigs ==
  { [Deployment EXCEPT !.positionSizeMultiplierPct = m, !.maxTradeSize = mx,
                       !.minTradeSize = mn, !.orderType = ot] :
      m \in {10, 100, 250}, mx \in {50, 10000}, mn \in {100, 500},
      ot \in {"LIMIT", "FOK", "FAK"} }

\* trade.size in cents
OriginalSizes == {0, 55, 300, 500, 1234, 100000}

InitSize == config \in SizeConfigs /\ Started

CallCalculateCopySize(originalSize) ==
  /\ probe' = [fn |-> "calculateCopySize", originalSize |-> originalSize,
               result |-> calculateCopySize(config, originalSize)]
  /\ UNCHANGED <<botVars, retry>>

NextSize == \E originalSize \in OriginalSizes : CallCalculateCopySize(originalSize)

SpecSize == InitSize /\ [][NextSize]_vars

\* the smallest order the venue takes: 1 USDC for market orders, minTradeSize
\* for LIMIT orders
marketMinimum(cfg) ==
  IF cfg.orderType = "LIMIT" THEN cfg.minTradeSize ELSE CentsPerDollar

\* C14: calculateCopySize never returns a value above maxTradeSize nor one
\* below the market minimum.
C14_ClampedIntoRange ==
  probe.fn = "calculateCopySize" =>
    /\ probe.result <= config.maxTradeSize
    /\ probe.result >= marketMinimum(config)

\* Prices of this section are exact decimals in millionths of a dollar.
PriceScale == 1000000

\* config.ts:31: SLIPPAGE_TOLERANCE, in percent
slippageTolerancePct == 2

\* trader.ts:242: the bounds 0.01 and 0.99
minPrice == PriceScale \div 100
maxPrice == 99 * (PriceScale \div 100)

\* the venue's tick sizes: 0.1, 0.01, 0.001, 0.0001
TickSizes == {PriceScale \div 10, PriceScale \div 100, PriceScale \div 1000,
              PriceScale \div 10000}

\* prices handed to validatePrice, with up to four decimals: below, inside
\* and above the range, on and off the ticks (456700 is 0.4567)
InputPrices ==
  {0 - 20000, 0, 4000, 10000, 14900, 95000, 456700, 500000, 555500, 985000,
   990000, 995000, 1200000}

\* trader.ts:234-236
roundToTickSize(price, tickSize) == RoundDiv(price, tickSize) * tickSize

\* a validation that only rounds
validatePriceUnclamped(price, tickSize) == roundToTickSize(price, tickSize)

\* trader.ts:238-249, tickSize being what getTickSize resolved to
validatePrice(price, tickSize) ==
  Max(minPrice, Min(maxPrice, roundToTickSize(price, tickSize)))

\* trader.ts:258-263
applySlippage(price, side, slippagePct) ==
  IF side = "BUY" THEN Min((price * (100 + slippagePct)) \div 100, maxPrice)
  ELSE Max((price * (100 - slippagePct)) \div 100, minPrice)

CallValidatePrice(price, tickSize) ==
  /\ probe' = [fn |-> "validatePrice", price |-> price, tickSize |-> tickSize,
               result |-> validatePrice(price, tickSize)]
  /\ UNCHANGED <<botVars, retry>>

\* trader.ts:401-415 and 451-468: the price of the order executeLimitOrder
\* or executeMarketOrder submits, bestPrice being the top of the book
SubmitOrder(orderType, bestPrice, side, tickSize) ==
  LET slipped        == applySlippage(bestPrice, side, slippageTolerancePct)
      validatedPrice == validatePrice(slipped, tickSize)
  IN /\ probe' = [fn |-> "submitOrder", orderType |-> orderType,
                  bestPrice |-> bestPrice, side |-> side,
                  tickSize |-> tickSize, price |-> validatedPrice]
     /\ UNCHANGED <<botVars, retry>>

NextPrice ==
  \/ \E price \in InputPrices, tickSize \in TickSizes :
        CallValidatePrice(price, tickSize)
  \/ \E orderType \in {"LIMIT", "FOK", "FAK"}, bestPrice \in InputPrices,
        side \in {"BUY", "SELL"}, tickSize \in TickSizes :
        SubmitOrder(orderType, bestPrice, side, tickSize)

SpecPrice == InitRetry /\ [][NextPrice]_vars

InRange(price) == minPrice <= price /\ price <= maxPrice

\* C15: validatePrice returns a price within [0.01, 0.99] for every input
\* price and tick size, and returns the multiple of the tick size nearest to
\* the input when that multiple lies within the range; the price of every
\* submitted order, limit or market, is within [0.01, 0.99].
C15_PriceWithinBounds ==
  /\ probe.fn = "validatePrice" =>
       /\ InRange(probe.result)
       /\ \A k \in 0..(PriceScale \div probe.tickSize) :
            LET multiple == k * probe.tickSize
            IN (InRange(multiple) /\ 2 * Abs(multiple - probe.price) < probe.tickSize)
                 => probe.result = multiple
  /\ probe.fn = "submitOrder" => InRange(probe.price)

\* 0.4567 with tick size 0.01 was validated to 0.46
C15_RoundedToTick ==
  /\ probe.fn = "validatePrice"
  /\ probe.price = 456700 /\ probe.tickSize = 10000
  /\ probe.result = 460000

\* ------------------------------------------- PositionTracker on its own

\* BUY fills: notional in cents and shares in 1/10000 (100 shares at 0.50,
\* 100 shares at 0.70, 0.5 share at 0.06)
FillAmounts ==
  { [notional |-> 5000, shares |-> 1000000],
    [notional |-> 7000, shares |-> 1000000],
    [notional |-> 3, shares |-> 5000] }

NoFills == [fn |-> "recordFill", history |-> <<>>]

\* PositionTracker.recordFill, from an empty tracker; probe keeps the fills
TrackerRecordFill(tokenId, amount) ==
  LET past == IF probe = NoProbe THEN NoFills ELSE probe
  IN /\ Len(past.history) < MaxFills
     /\ positions' = positionsRecordFill(positions, tokenId, amount.notional,
                                         amount.shares, "BUY")
     /\ probe' = [past EXCEPT !.history =
                     Append(@, [tokenId |-> tokenId, notional |-> amount.notional,
                                shares |-> amount.shares])]
     /\ UNCHANGED <<config, now, botStartTime, processedTrades, stats, inflight,
                    sessionNotional, lastProcessedTimestamp, processedTradeIds,
                    poll, ws, execLog, evicted, discarded, aborted, fills,
                    lastCheck, retry>>

NextPosition ==
  \E tokenId \in Tokens, amount \in FillAmounts : TrackerRecordFill(tokenId, amount)

SpecPosition == InitRetry /\ [][NextPosition]_vars

\* the fills of a history on one token
RECURSIVE FillsOn(_, _)
FillsOn(history, tokenId) ==
  IF history = <<>> THEN <<>>
  ELSE LET rest == FillsOn(Tail(history), tokenId)
       IN IF Head(history).tokenId = tokenId THEN <<Head(history)>> \o rest
          ELSE rest

RECURSIVE SumNotional(_)
SumNotional(h) == IF h = <<>> THEN 0 ELSE Head(h).notional + SumNotional(Tail(h))

RECURSIVE SumShares(_)
SumShares(h) == IF h = <<>> THEN 0 ELSE Head(h).shares + SumShares(Tail(h))

\* C16: starting from no position, after any sequence of BUY fills the
\* position of each token holds the sum of the shares and the sum of the
\* notionals of the fills on that token and the average price
\* notional / shares; a token without fills has no position, so fills on one
\* token leave the others as they were.
C16_PositionIsSumOfFills ==
  probe.fn = "recordFill" =>
    \A t \in Tokens :
      LET h == FillsOn(probe.history, t)
      IN IF h = <<>> THEN t \notin DOMAIN positions
         ELSE /\ t \in DOMAIN positions
              /\ positions[t].shares = SumShares(h)
              /\ positions[t].notional = SumNotional(h)
              /\ positions[t].avgPrice = <<SumNotional(h), SumShares(h)>>

\* 100 shares at 0.50 then 100 shares at 0.70 on token A, with a fill on
\* token B in between: A holds 200 shares, 120.00 notional, average 0.60
C16_TwoFillsAverage ==
  /\ probe.fn = "recordFill"
  /\ Len(probe.history) = 3
  /\ FillsOn(probe.history, "A") =
       << [tokenId |-> "A", notional |-> 5000, shares |-> 1000000],
          [tokenId |-> "A", notional |-> 7000, shares |-> 1000000] >>
  /\ positions["A"].shares = 2000000
  /\ positions["A"].notional = 12000
  /\ 10 * positions["A"].avgPrice[1] * SharesScale
       = 6 * positions["A"].avgPrice[2] * CentsPerDollar

\* ---------------------------------------------- push monitor on its own

\* the attempt ceiling of the push monitor run on its own (10 in the source)
MaxReconnects == 4
\* reconnect timers pending at once
MaxTimers == 3

\* websocket-monitor.ts:322, after the increment of line 321
reconnectDelayOf(w) == reconnectDelay * Pow(2, w.reconnectAttempts - 1)

\* n calls of attemptReconnect() in one task, with the delays they compute
RECURSIVE reconnectCalls(_, _, _)
reconnectCalls(w, n, delays) ==
  IF n = 0 THEN [ws |-> w, delays |-> delays]
  ELSE LET w1 == attemptReconnectWithin(w, MaxReconnects)
       IN reconnectCalls(w1, n - 1,
                         IF w1 = w THEN delays
                         ELSE Append(delays, reconnectDelayOf(w1)))

\* probe: the disconnects since the last open and the delays the last of
\* them made attemptReconnect compute
NoDisconnect == [fn |-> "attemptReconnect", disconnects |-> 0, delays |-> <<>>]

Disconnects == IF probe = NoProbe THEN NoDisconnect ELSE probe

pushFrame ==
  <<config, now, botStartTime, processedTrades, stats, inflight,
    sessionNotional, positions, lastProcessedTimestamp, processedTradeIds,
    poll, execLog, evicted, discarded, aborted, fills, lastCheck, retry>>

\* websocket-monitor.ts:139-163: a caller registers an instrument
PushSubscribe(tokenId) ==
  /\ tokenId \notin ws.subscribedAssets
  /\ ws' = subscribeToMarket(config, ws, tokenId).ws
  /\ UNCHANGED <<pushFrame, probe>>

\* websocket-monitor.ts:80-87: the socket opens
PushOpen ==
  /\ ws.sock = "connecting"
  /\ ws' = [ws EXCEPT !.isConnected = TRUE, !.sock = "open",
                      !.reconnectAttempts = 0, !.connectPromise = FALSE,
                      !.sent = ws.subscribedAssets, !.timerWaiters = 0]
  /\ probe' = NoDisconnect
  /\ UNCHANGED pushFrame

\* websocket-monitor.ts:93-107 and 339-342: the connection attempt fails;
\* 'close' calls attemptReconnect, then the catch of every reconnect timer
\* that awaited the connection calls it again
PushConnectFail ==
  /\ ws.sock = "connecting"
  /\ LET closed == [ws EXCEPT !.isConnected = FALSE, !.sock = "null",
                              !.connectPromise = FALSE, !.timerWaiters = 0]
         calls  == (IF hasSubscriptions(ws) THEN 1 ELSE 0) + ws.timerWaiters
         after  == reconnectCalls(closed, calls, <<>>)
     IN /\ after.ws.timers <= MaxTimers
        /\ ws' = after.ws
        /\ probe' = [Disconnects EXCEPT !.disconnects = @ + 1,
                                        !.delays = after.delays]
  /\ UNCHANGED pushFrame

\* websocket-monitor.ts:93-102: the open socket closes
PushClose ==
  /\ ws.sock = "open"
  /\ LET closed == [ws EXCEPT !.isConnected = FALSE, !.sock = "null"]
         after  == reconnectCalls(closed,
                                  IF hasSubscriptions(closed) THEN 1 ELSE 0, <<>>)
     IN /\ after.ws.timers <= MaxTimers
        /\ ws' = after.ws
        /\ probe' = [Disconnects EXCEPT !.disconnects = @ + 1,
                                        !.delays = after.delays]
  /\ UNCHANGED pushFrame

\* websocket-monitor.ts:326-338: a reconnect timer fires
PushTimer ==
  /\ ws.timers > 0
  /\ LET ec == ensureConnected([ws EXCEPT !.timers = @ - 1])
     IN ws' = IF ec.pending THEN [ec.ws EXCEPT !.timerWaiters = @ + 1]
              ELSE ec.ws
  /\ UNCHANGED <<pushFrame, probe>>

NextPush ==
  \/ \E tokenId \in Tokens : PushSubscribe(tokenId)
  \/ PushOpen
  \/ PushConnectFail
  \/ PushClose
  \/ PushTimer

SpecPush == InitRetry /\ [][NextPush]_vars

\* C17: after N consecutive disconnects with no successful open in between,
\* every delay attemptReconnect computes for the next reconnect equals
\* reconnectDelay * 2^(N-1).
C17_DelayDoublesPerDisconnect ==
  probe.fn = "attemptReconnect" =>
    \A i \in 1..Len(probe.delays) :
      probe.delays[i] = reconnectDelay * Pow(2, probe.disconnects - 1)

\* ------------------------------------- validateBalance inside the retry loop

\* USDC.e has 6 decimals (usdc.decimals(), trader.ts:500)
UsdcUnit == 1000000

DigitChars == <<"0", "1", "2", "3", "4", "5", "6", "7", "8", "9">>

\* the decimal digits of a natural number
RECURSIVE Digits(_)
Digits(n) ==
  IF n < 10 THEN <<DigitChars[n + 1]>>
  ELSE Digits(n \div 10) \o <<DigitChars[(n % 10) + 1]>>

\* the digits of a fraction f of width w, trailing zeros dropped
RECURSIVE FractionDigits(_, _)
FractionDigits(f, w) ==
  IF f = 0 \/ w = 0 THEN <<>>
  ELSE LET scale == Pow(10, w - 1)
       IN <<DigitChars[(f \div scale) + 1]>> \o FractionDigits(f % scale, w - 1)

\* ethers.utils.formatUnits(value, 6): "502.0", "0.502"
formatUnits(value) ==
  LET frac == FractionDigits(value % UsdcUnit, 6)
  IN Digits(value \div UsdcUnit) \o <<".">>
       \o (IF frac = <<>> THEN <<"0">> ELSE frac)

\* Number.prototype.toString of value / unit, unit a power of ten of w
\* digits: "502", "0.502", "5.04"
numberToString(value, unit, w) ==
  LET frac == FractionDigits(value % unit, w)
  IN Digits(value \div unit) \o (IF frac = <<>> THEN <<>> ELSE <<".">> \o frac)

\* String.prototype.includes
includes(text, pattern) ==
  \E i \in 1..(Len(text) - Len(pattern) + 1) :
    SubSeq(text, i, i + Len(pattern) - 1) = pattern

\* the words of isRetryableError a text of digits contains
digitWords(text) ==
  {w \in {"502", "503", "504"} :
     includes(text, <<SubSeq(w, 1, 1), SubSeq(w, 2, 2), SubSeq(w, 3, 3)>>)}

\* trader.ts:493-540: the checks of validateBalance in their order
BalanceChecks ==
  {"balance", "allowanceCtf", "allowanceEx", "clobBalance", "clobAllowance"}

\* validateBalance(requiredAmount) when the amount that check reads is held
\* (micro-USDC) and every other check passes: the error thrown, NoError if
\* none; requiredAmount in cents
validateBalance(check, held, requiredAmount) ==
  LET required == requiredAmount * (UsdcUnit \div CentsPerDollar)
      reqText  == numberToString(requiredAmount, CentsPerDollar, 2)
      words    == {"not enough balance", "allowance"}
  IN IF check \in {"balance", "allowanceCtf", "allowanceEx"}
     THEN IF held < required
          THEN [msg |-> words \cup digitWords(formatUnits(held))
                              \cup digitWords(reqText),
                data |-> {}, status |-> 0]
          ELSE NoError
     ELSE IF check = "clobBalance"
     THEN IF held < required
          THEN [msg |-> words \cup digitWords(numberToString(held, UsdcUnit, 6))
                              \cup digitWords(reqText),
                data |-> {}, status |-> 0]
          ELSE NoError
     ELSE IF held = 0 THEN [msg |-> words, data |-> {}, status |-> 0]
          ELSE NoError

\* amounts a check may read, micro-USDC: 0, 0.502, 0.75, 1.503, 20, 502,
\* 1000
HeldAmounts == {0, 502000, 750000, 1503000, 20000000, 502000000, 1000000000}

\* copy notionals, cents: 1.00, 5.04, 300.00, 504.00
RequiredAmounts == {100, 504, 30000, 50400}

\* executeCopyTrade(trade, copyNotional): executeWithRetry invokes the order
\* path for the first time (trader.ts:288-294)
BalanceCall(check, held, requiredAmount) ==
  /\ retry.pc = "idle"
  /\ retry' = [pc |-> "calling", attempt |-> 1, calls |-> 1, error |-> NoError,
               thrown |-> NoError, delay |-> 0, check |-> check, held |-> held,
               requiredAmount |-> requiredAmount, submitted |-> 0]
  /\ UNCHANGED <<botVars, probe>>

\* trader.ts:442 (390 for LIMIT), 303-325: validateBalance throws and the
\* catch of executeWithRetry decides
BalanceCheckFails ==
  /\ retry.pc = "calling"
  /\ LET error == validateBalance(retry.check, retry.held, retry.requiredAmount)
     IN /\ error # NoError
        /\ retry' = IF surfaces(error, retry.attempt)
                    THEN [retry EXCEPT !.pc = "threw", !.error = error,
                                       !.thrown = error]
                    ELSE [retry EXCEPT !.pc = "sleeping", !.error = error,
                                       !.delay = retryDelay(retry.attempt)]
  /\ UNCHANGED <<botVars, probe>>

\* trader.ts:442-471: validateBalance passes and the order is posted
BalanceCheckPasses ==
  /\ retry.pc = "calling"
  /\ validateBalance(retry.check, retry.held, retry.requiredAmount) = NoError
  /\ retry' = [retry EXCEPT !.pc = "returned", !.submitted = @ + 1]
  /\ UNCHANGED <<botVars, probe>>

NextBalance ==
  \/ \E check \in BalanceChecks, held \in HeldAmounts,
        requiredAmount \in RequiredAmounts :
        BalanceCall(check, held, requiredAmount)
  \/ BalanceCheckFails
  \/ BalanceCheckPasses
  \/ RetrySleepDone

SpecBalance == InitRetry /\ [][NextBalance]_vars

\* C21: when the balance/allowance check fails no order is submitted and
\* executeCopyTrade fails after exactly one attempt, for every balance and
\* required amount: the order path is never invoked a second time.
C21_BalanceFailureOneAttempt ==
  (retry.pc # "idle"
     /\ validateBalance(retry.check, retry.held, retry.requiredAmount) # NoError)
    => (retry.calls = 1 /\ retry.submitted = 0 /\ retry.pc # "sleeping")

\* ------------------------------------ the order path inside the retry loop

\* what a step of the order path may throw: a network timeout (retryable)
\* or an invalid request (not retryable)
StepErrors ==
  { [msg |-> {"timeout"}, data |-> {}, status |-> 0],
    [msg |-> {"invalid"}, data |-> {}, status |-> 0] }

\* a retry that repeats the submission only
nextAttemptSubmitOnly(r) ==
  [r EXCEPT !.pc = "submit", !.attempt = @ + 1, !.calls = @ + 1,
            !.error = NoError, !.delay = 0]

\* trader.ts:325-326 with the fn of 288-294: the next attempt invokes
\* executeMarketOrder / executeLimitOrder from its first line
nextAttempt(r) ==
  [r EXCEPT !.pc = "calling", !.attempt = @ + 1, !.calls = @ + 1,
            !.error = NoError, !.delay = 0]

\* trader.ts:303-325: the catch of executeWithRetry
caught(r, error) ==
  IF surfaces(error, r.attempt)
  THEN [r EXCEPT !.pc = "threw", !.error = error, !.thrown = error]
  ELSE [r EXCEPT !.pc = "sleeping", !.error = error,
                 !.delay = retryDelay(r.attempt)]

\* executeCopyTrade: executeWithRetry invokes the order path (trader.ts:288)
OrderCall ==
  /\ retry.pc = "idle"
  /\ retry' = [pc |-> "calling", attempt |-> 1, calls |-> 1, error |-> NoError,
               thrown |-> NoError, delay |-> 0, balanceChecks |-> 0,
               bookFetches |-> 0, derivations |-> 0, submissions |-> 0]
  /\ UNCHANGED <<botVars, probe>>

\* trader.ts:442: await validateBalance
StepBalance ==
  /\ retry.pc = "calling"
  /\ \/ retry' = [retry EXCEPT !.pc = "book", !.balanceChecks = @ + 1]
     \/ \E error \in StepErrors :
          retry' = caught([retry EXCEPT !.balanceChecks = @ + 1], error)
  /\ UNCHANGED <<botVars, probe>>

\* trader.ts:444-449: await getOrderBook / getOrderOptions, ensureLiquidity
StepBook ==
  /\ retry.pc = "book"
  /\ \/ retry' = [retry EXCEPT !.pc = "derive", !.bookFetches = @ + 1]
     \/ \E error \in StepErrors :
          retry' = caught([retry EXCEPT !.bookFetches = @ + 1], error)
  /\ UNCHANGED <<botVars, probe>>

\* trader.ts:451-455: best price, slippage, await validatePrice, copyShares
StepDerive ==
  /\ retry.pc = "derive"
  /\ retry' = [retry EXCEPT !.pc = "submit", !.derivations = @ + 1]
  /\ UNCHANGED <<botVars, probe>>

\* trader.ts:460-490: await createAndPostMarketOrder
StepSubmit ==
  /\ retry.pc = "submit"
  /\ \/ retry' = [retry EXCEPT !.pc = "returned", !.submissions = @ + 1]
     \/ \E error \in StepErrors :
          retry' = caught([retry EXCEPT !.submissions = @ + 1], error)
  /\ UNCHANGED <<botVars, probe>>

\* trader.ts:325-326: the sleep is over
OrderSleepDone ==
  /\ retry.pc = "sleeping"
  /\ retry' = nextAttempt(retry)
  /\ UNCHANGED <<botVars, probe>>

NextOrder ==
  \/ OrderCall
  \/ StepBalance
  \/ StepBook
  \/ StepDerive
  \/ StepSubmit
  \/ OrderSleepDone

\* trader.ts:278, 289-293: the order type chooses executeMarketOrder or
\* executeLimitOrder, which run the same steps
InitOrder ==
  /\ config \in {[Deployment EXCEPT !.orderType = ot] : ot \in {"LIMIT", "FOK", "FAK"}}
  /\ Started

SpecOrder == InitOrder /\ [][NextOrder]_vars

\* C22 (as stated): the balance/allowance check, the order-book fetch and
\* the price/size derivation run once per trade, whatever the number of
\* attempts.
C22_OnlySubmissionRepeated ==
  retry.pc # "idle" =>
    /\ retry.balanceChecks <= 1
    /\ retry.bookFetches <= 1
    /\ retry.derivations <= 1

\* C22 (amended): the retry policy wraps the whole order path: every
\* attempt starts with the balance/allowance check and runs the order-book
\* fetch, the price/size derivation and the submission in that order, each
\* at most once per attempt; an attempt that reaches the submission has run
\* the three steps before it.
C22_WholePathPerAttempt ==
  retry.pc # "idle" =>
    /\ retry.calls = retry.attempt
    /\ retry.balanceChecks <= retry.attempt
    /\ retry.submissions <= retry.derivations
    /\ retry.derivations <= retry.bookFetches
    /\ retry.bookFetches <= retry.balanceChecks
    /\ retry.pc = "calling" => retry.balanceChecks = retry.attempt - 1
    /\ retry.pc = "submit" =>
         /\ retry.balanceChecks = retry.attempt
         /\ retry.submissions < retry.attempt
    /\ retry.pc = "returned" => retry.balanceChecks = retry.attempt

\* the second attempt succeeded: the balance was checked, the book fetched
\* and the price derived twice
C22_SecondAttemptRanAll ==
  /\ retry.pc = "returned"
  /\ retry.attempt = 2
  /\ retry.balanceChecks = 2 /\ retry.bookFetches = 2
  /\ retry.derivations = 2 /\ retry.submissions = 2

\* ------------------------------ PositionTracker: loads, BUY and SELL fills

\* the positions the venue reports at startup (index.ts:176): tokenId ""
\* for a record without one, size in 1/10000 share, usdcValue in cents,
\* avgPrice in cents per share (0: not reported)
LoadRecords ==
  { [tokenId |-> t, size |-> sz, usdcValue |-> val, avgPrice |-> ap] :
      t \in {"A", ""}, sz \in {0 - 10000, 0, 20000}, val \in {0 - 50, 100},
      ap \in {0, 60} }

LoadLists ==
  {<<>>} \cup {<<r>> : r \in LoadRecords}
         \cup {<<r, [r EXCEPT !.tokenId = "B"]>> : r \in LoadRecords}

\* part_001:16-62, avgPrice kept as the fraction num / den
RECURSIVE loadFromClobPositions(_, _)
loadFromClobPositions(held, list) ==
  IF list = <<>> THEN held
  ELSE LET pos == Head(list)
       IN IF pos.tokenId = "" THEN loadFromClobPositions(held, Tail(list))
          ELSE LET state == [shares   |-> Max(0, pos.size),
                             notional |-> Max(0, pos.usdcValue),
                             avgPrice |->
                               IF pos.avgPrice # 0
                               THEN <<pos.avgPrice, SharesScale>>
                               ELSE IF pos.size > 0
                               THEN <<Abs(pos.usdcValue), Abs(pos.size)>>
                               ELSE <<0, 1>>]
               IN loadFromClobPositions(
                    [t \in DOMAIN held \cup {pos.tokenId} |->
                       IF t = pos.tokenId THEN state ELSE held[t]],
                    Tail(list))

\* fills: 1 share for 0.50, 3 shares for 0.90
TrackerFills ==
  { [notional |-> 50, shares |-> 10000], [notional |-> 90, shares |-> 30000] }

NoCalls == [fn |-> "tracker", calls |-> 0, op |-> [kind |-> "none"]]

TrackerCalls == IF probe = NoProbe THEN NoCalls ELSE probe

trackerFrame ==
  <<config, now, botStartTime, processedTrades, stats, inflight,
    sessionNotional, lastProcessedTimestamp, processedTradeIds, poll, ws,
    execLog, evicted, discarded, aborted, fills, lastCheck, retry>>

\* positions.loadFromClobPositions(list)
TrackerLoad(list) ==
  /\ TrackerCalls.calls < MaxFills
  /\ positions' = loadFromClobPositions(positions, list)
  /\ probe' = [TrackerCalls EXCEPT !.calls = @ + 1, !.op = [kind |-> "load"]]
  /\ UNCHANGED trackerFrame

\* positions.recordFill({trade, notional, shares, price, side})
TrackerFill(tokenId, amount, side) ==
  /\ TrackerCalls.calls < MaxFills
  /\ positions' = positionsRecordFill(positions, tokenId, amount.notional,
                                      amount.shares, side)
  /\ probe' = [TrackerCalls EXCEPT
                 !.calls = @ + 1,
                 !.op = [kind |-> "fill", tokenId |-> tokenId, side |-> side,
                         shares |-> amount.shares,
                         heldBefore |-> Held(positions, tokenId).shares]]
  /\ UNCHANGED trackerFrame

NextTracker ==
  \/ \E list \in LoadLists : TrackerLoad(list)
  \/ \E tokenId \in Tokens, amount \in TrackerFills, side \in {"BUY", "SELL"} :
       TrackerFill(tokenId, amount, side)

SpecTracker == InitRetry /\ [][NextTracker]_vars

\* C23: in every stored position avgPrice equals notional / shares when
\* shares is not 0 and equals 0 when shares is 0.
C23_AvgPriceIsNotionalPerShare ==
  \A t \in DOMAIN positions :
    IF positions[t].shares # 0
    THEN positions[t].avgPrice[1] * positions[t].shares
           = positions[t].notional * positions[t].avgPrice[2]
    ELSE positions[t].avgPrice[1] = 0

\* the last call was a SELL of more shares than were held
OversoldLast ==
  /\ probe.fn = "tracker" /\ probe.op.kind = "fill"
  /\ probe.op.side = "SELL"
  /\ probe.op.shares > probe.op.heldBefore

\* C24: every stored position has shares >= 0 and notional >= 0; a SELL of
\* more shares than are held leaves the entry in the ledger with 0 shares;
\* no call deletes an entry.
C24_NonNegativeNeverDeleted ==
  /\ [](\A t \in DOMAIN positions :
          positions[t].shares >= 0 /\ positions[t].notional >= 0)
  /\ [](OversoldLast =>
          /\ probe.op.tokenId \in DOMAIN positions
          /\ positions[probe.op.tokenId].shares = 0)
  /\ [][DOMAIN positions \subseteq DOMAIN positions']_vars

\* 1 share was held and 3 were sold: the entry is there with 0 shares
C24_OversoldClamped ==
  /\ OversoldLast
  /\ probe.op.heldBefore = 10000 /\ probe.op.shares = 30000
  /\ positions[probe.op.tokenId].shares = 0
  /\ positions[probe.op.tokenId].notional = 0

\* ------------------------------------------------ REST monitor on its own

\* The wallet's trades the activity feed may report to the monitor run on
\* its own: one before the start, two within one second, and enough later
\* ones for the seen-set to be pruned.
MonitorTrades ==
  { [hash |-> h, ts |-> t, asset |-> "A", side |-> "BUY", price |-> 50,
     size |-> 300000, usdcSize |-> 0] :
      <<h, t>> \in { <<1, 1500>>, <<2, 3000>>, <<3, 3200>>, <<4, 4000>>,
                     <<5, 5000>>, <<6, 6000>>, <<7, 7000>> } }

\* what the feed may answer: at most limit of the trades, each once, in any
\* order
MonitorResponses ==
  UNION { { r \in [1..n -> MonitorTrades] : \A i, j \in 1..n : i # j => r[i] # r[j] }
          : n \in 0..limit }

\* how a fetch ends: answered; axios.get rejected; a record that
\* parseDataApiTrade throws on; a body that is no array
FetchOutcomes == {"ok", "fetchError", "parseError", "notArray"}

\* a fetch that hands on what it parsed even when it failed
fetchTradesKeepsParsed(outcome, resp) ==
  [i \in 1..Len(resp) |-> parseDataApiTrade(ApiRecord(resp[i]))]

\* monitor.ts:27-56
fetchTradesFromDataApi(outcome, resp) ==
  IF outcome = "ok"
  THEN [i \in 1..Len(resp) |-> parseDataApiTrade(ApiRecord(resp[i]))]
  ELSE <<>>

\* a loop that trusts the seen-set alone
skipsSeenOnly(trade, ids, mark) == InSeq(trade.txHash, ids)

\* monitor.ts:94-100: the trade is passed over
skips(trade, ids, mark) ==
  InSeq(trade.txHash, ids) \/ trade.timestamp <= mark

\* monitor.ts:91-109 with a handler that returns: m holds the watermark,
\* the seen-set and the trades handed to the handler
RECURSIVE monitorLoop(_, _)
monitorLoop(m, batch) ==
  IF batch = <<>> THEN m
  ELSE LET trade == Head(batch)
       IN IF skips(trade, m.ids, m.mark) THEN monitorLoop(m, Tail(batch))
          ELSE monitorLoop([mark   |-> Max(m.mark, trade.timestamp),
                            ids    |-> SetAdd(m.ids, trade.txHash),
                            handed |-> Append(m.handed, trade)],
                           Tail(batch))

\* monitor.ts:29
startSecondsOf(mark) == (mark \div MsPerSec) + 1

NoPolls ==
  [fn |-> "poll", handed |-> <<>>, outcome |-> "none", startSeconds |-> 0,
   skippedPruned |-> FALSE]

Polls == IF probe = NoProbe THEN NoPolls ELSE probe

monitorFrame ==
  <<config, now, botStartTime, processedTrades, stats, inflight,
    sessionNotional, positions, poll, ws, execLog, evicted, discarded,
    aborted, fills, lastCheck, retry>>

\* index.ts:95-96: one cycle of start(): pollForNewTrades with a handler
\* that returns, then pruneProcessedHashes.  probe keeps every trade handed
\* to the handler so far, how the fetch ended, the start it queried from,
\* and whether the response held a trade handed earlier whose hash the
\* seen-set has lost.
MonitorPoll(outcome, resp) ==
  LET trades == fetchTradesFromDataApi(outcome, resp)
      m0     == [mark |-> lastProcessedTimestamp, ids |-> processedTradeIds,
                 handed |-> Polls.handed]
      m1     == IF trades = <<>> THEN m0
                ELSE monitorLoop(m0, sortByTimestamp(trades))
  IN /\ lastProcessedTimestamp' = m1.mark
     /\ processedTradeIds' = pruneProcessedHashes(m1.ids)
     /\ probe' = [fn |-> "poll", handed |-> m1.handed, outcome |-> outcome,
                  startSeconds |-> startSecondsOf(lastProcessedTimestamp),
                  skippedPruned |->
                    \E i \in 1..Len(trades) :
                      /\ InSeq(trades[i], Polls.handed)
                      /\ ~InSeq(trades[i].txHash, processedTradeIds)]
     /\ UNCHANGED monitorFrame

NextMonitor ==
  \E outcome \in FetchOutcomes, resp \in MonitorResponses : MonitorPoll(outcome, resp)

SpecMonitor == InitRetry /\ [][NextMonitor]_vars

\* C25: the watermark never decreases; a trade is handed to the handler
\* only if its timestamp is above the watermark and its txHash is not in the
\* seen-set; over the whole run the timestamps handed are strictly
\* increasing and no txHash is handed twice, pruned seen-set or not.
C25_WatermarkMonotoneHandedOnce ==
  /\ [](probe.fn = "poll" =>
          /\ Ascending(probe.handed)
          /\ \A i, j \in 1..Len(probe.handed) :
               i # j => probe.handed[i].txHash # probe.handed[j].txHash
          /\ \A i \in 1..Len(probe.handed) :
               probe.handed[i].timestamp <= lastProcessedTimestamp)
  /\ [][/\ lastProcessedTimestamp' >= lastProcessedTimestamp
        /\ \A i \in (Len(Polls.handed) + 1)..Len(probe'.handed) :
             /\ probe'.handed[i].timestamp > lastProcessedTimestamp
             /\ ~InSeq(probe'.handed[i].txHash, processedTradeIds)]_vars

\* the seen-set was pruned and the feed reported again a trade whose hash
\* the pruning had dropped: five trades were handed, each once
C25_RedeliveredAfterPrune ==
  /\ probe.fn = "poll"
  /\ probe.skippedPruned
  /\ Len(probe.handed) = 5
  /\ Len(processedTradeIds) = keepProcessedHashes

\* C26: when the fetch or the parse fails, the poll hands nothing to the
\* handler and leaves the watermark and the seen-set as they were, and the
\* next poll queries from the same start.
C26_FailedFetchChangesNothing ==
  [][(probe'.fn = "poll" /\ probe'.outcome \in {"fetchError", "parseError"}) =>
       /\ probe'.handed = Polls.handed
       /\ lastProcessedTimestamp' = lastProcessedTimestamp
       /\ processedTradeIds' = processedTradeIds
       /\ startSecondsOf(lastProcessedTimestamp') = probe'.startSeconds]_vars

\* trades were handed, then a fetch failed although the feed had a new
\* trade to report
C26_FetchFailedAfterTrades ==
  /\ probe.fn = "poll"
  /\ probe.outcome = "fetchError"
  /\ Len(probe.handed) = 2
  /\ lastProcessedTimestamp = 4000
  /\ probe.startSeconds = 5

\* ------------------------------------------------ outcomes of detected trades

\* C27: every detected trade ends copied, failed or policy-skipped and in
\* no other way: when no trade is in flight, every execution begun has been
\* counted as copied or failed, and no detected trade was ended by a throw
\* out of handleNewTrade.
C27_EveryDetectedTradeSettled ==
  inflight = {} =>
    /\ stats.tradesCopied + stats.tradesFailed = Cardinality({e.id : e \in execLog})
    /\ \A id \in 1..stats.tradesDetected : \A a \in aborted : a.id # id

\* ------------------------------------------------ processed-keys set on its own

ledgerFrame ==
  <<config, now, botStartTime, stats, inflight, sessionNotional, positions,
    lastProcessedTimestamp, processedTradeIds, poll, ws, execLog, evicted,
    discarded, aborted, fills, lastCheck, retry>>

\* index.ts:104-117: the head of handleNewTrade, up to the pruning, for a
\* trade of the REST feed; probe keeps the trade, the set found, and whether
\* the dedup step accepted the trade
LedgerHandle(trade) ==
  LET accepted == ~predatesStart(trade, botStartTime)
                  /\ ~isDuplicate(trade, processedTrades)
  IN /\ processedTrades' =
          IF accepted
          THEN pruneProcessedTrades(addKeys(processedTrades, getTradeKeys(trade)))
          ELSE processedTrades
     /\ probe' = [fn |-> "handleNewTrade", trade |-> trade,
                  before |-> processedTrades, accepted |-> accepted]
     /\ UNCHANGED ledgerFrame

NextLedger == \E v \in MonitorTrades : LedgerHandle(restTradeOf(v))

SpecLedger == InitRetry /\ [][NextLedger]_vars

\* the set as it stood when the last accepted trade's keys had been inserted
Inserted == addKeys(probe.before, getTradeKeys(probe.trade))

\* C28: after every handleNewTrade call the processed-keys set holds at
\* most maxProcessedTrades entries; when the insertion took it over the
\* ceiling it is exactly its floor(maxProcessedTrades / 2) most recently
\* inserted keys, in order, and otherwise nothing was dropped.
C28_ProcessedKeysBounded ==
  probe.fn = "handleNewTrade" =>
    /\ Len(processedTrades) <= maxProcessedTrades
    /\ probe.accepted =>
         IF Len(Inserted) > maxProcessedTrades
         THEN /\ Len(processedTrades) = maxProcessedTrades \div 2
              /\ \A i \in 1..Len(processedTrades) :
                   processedTrades[i] =
                     Inserted[Len(Inserted) - Len(processedTrades) + i]
         ELSE processedTrades = Inserted
    /\ ~probe.accepted => processedTrades = probe.before

\* a third trade took the set of four keys to six, and two were kept
C28_PrunedToHalf ==
  /\ probe.fn = "handleNewTrade"
  /\ probe.accepted
  /\ Len(probe.before) = maxProcessedTrades
  /\ Len(Inserted) = maxProcessedTrades + 2
  /\ processedTrades = getTradeKeys(probe.trade)

\* ------------------------------------------------ getMarketMetadata

\* trader.ts:37, in the model's seconds: an entry is fresh for two ticks
CACHE_TTL == 2 * MsPerSec

\* how a promise settles
Rejected == [ok |-> FALSE]

Resolved(value) == [ok |-> TRUE, value |-> value]

\* the value of a digit character
DigitValue(c) == CHOOSE d \in 0..9 : DigitChars[d + 1] = c

\* the value, in units of scale / 10 per leading digit, of a run of digits
RECURSIVE fractionValue(_, _)
fractionValue(digits, scale) ==
  IF digits = <<>> \/ scale = 0 THEN 0
  ELSE DigitValue(Head(digits)) * scale + fractionValue(Tail(digits), scale \div 10)

\* parseFloat of a decimal text "d.ddd", in units of 1 / PriceScale
parseFloat(text) ==
  LET dot == CHOOSE i \in 1..(Len(text) + 1) :
               /\ i <= Len(text) => text[i] = "."
               /\ \A j \in 1..(i - 1) : text[j] # "."
      whole == SubSeq(text, 1, dot - 1)
      frac  == SubSeq(text, dot + 1, Len(text))
  IN fractionValue(whole, Pow(10, Len(whole) - 1)) * PriceScale
       + fractionValue(frac, PriceScale \div 10)

\* the tick sizes the venue quotes for a market, as it reports them
TickTexts == { numberToString(t, PriceScale, 6) : t \in {PriceScale \div 100, PriceScale \div 1000} }

\* what clobClient.getTickSize may settle with: the tick text, an object
\* holding it, or a rejection
TickResponses ==
  { Resolved([form |-> f, text |-> t]) : f \in {"text", "object"}, t \in TickTexts }
    \cup {Rejected}

\* what the three calls of trader.ts:195-199 may settle with; threw: one of
\* them throws before returning a promise
Upstreams ==
  [tick : TickResponses,
   negRisk : {Resolved(TRUE), Resolved(FALSE), Rejected},
   feeRateBps : {Resolved(0), Resolved(100), Rejected}, threw : BOOLEAN]

NoUpstream ==
  [tick |-> Rejected, negRisk |-> Rejected, feeRateBps |-> Rejected,
   threw |-> FALSE]

\* promise.catch(() => fallback)
orElse(outcome, fallback) == IF outcome.ok THEN outcome.value ELSE fallback

\* trader.ts:216-223
defaultMetadata(t) ==
  [tickSize |-> PriceScale \div 100, tickSizeStr |-> <<"0", ".", "0", "1">>,
   negRisk |-> FALSE, feeRateBps |-> 0, timestamp |-> t]

\* a fetch that gives up every fetched value when one call fails
fetchedMetadataAllOrNothing(up, t) ==
  IF up.threw \/ ~up.tick.ok \/ ~up.negRisk.ok \/ ~up.feeRateBps.ok
  THEN defaultMetadata(t)
  ELSE [tickSize |-> parseFloat(up.tick.value.text),
        tickSizeStr |-> up.tick.value.text, negRisk |-> up.negRisk.value,
        feeRateBps |-> up.feeRateBps.value, timestamp |-> t]

\* trader.ts:194-226: the metadata built of what the calls settled with
fetchedMetadata(up, t) ==
  IF up.threw THEN defaultMetadata(t)
  ELSE LET tickSizeData == orElse(up.tick, [form |-> "object",
                                            text |-> <<"0", ".", "0", "1">>])
           tickSizeStr  == IF tickSizeData.text # <<>> THEN tickSizeData.text
                           ELSE <<"0", ".", "0", "1">>
       IN [tickSize |-> parseFloat(tickSizeStr), tickSizeStr |-> tickSizeStr,
           negRisk |-> orElse(up.negRisk, FALSE),
           feeRateBps |-> orElse(up.feeRateBps, 0), timestamp |-> t]

NoEntry == [timestamp |-> 0 - 1]

\* trader.ts:187-192
isFresh(entry, t) == entry # NoEntry /\ (t - entry.timestamp) < CACHE_TTL

NoMetadata ==
  [fn |-> "getMarketMetadata", marketCache |-> [k \in Tokens |-> NoEntry],
   tokenId |-> "none", returned |-> NoEntry, upstream |-> NoUpstream,
   hit |-> FALSE]

Metadata == IF probe = NoProbe THEN NoMetadata ELSE probe

metadataFrame ==
  <<config, botStartTime, processedTrades, stats, inflight, sessionNotional,
    positions, lastProcessedTimestamp, processedTradeIds, poll, ws, execLog,
    evicted, discarded, aborted, fills, lastCheck, retry>>

\* trader.ts:186-227: one call of getMarketMetadata, the upstream calls
\* settling with up; probe keeps the cache, the call and what it returned
MetadataCall(tokenId, up) ==
  LET cached == Metadata.marketCache[tokenId]
      hit    == isFresh(cached, now)
      entry  == IF hit THEN cached ELSE fetchedMetadata(up, now)
  IN /\ probe' = [fn |-> "getMarketMetadata",
                  marketCache |-> [Metadata.marketCache EXCEPT ![tokenId] = entry],
                  tokenId |-> tokenId, returned |-> entry,
                  upstream |-> IF hit THEN NoUpstream ELSE up, hit |-> hit]
     /\ UNCHANGED <<now, metadataFrame>>

MetadataTick ==
  /\ now < MaxSecond * MsPerSec
  /\ now' = now + MsPerSec
  /\ UNCHANGED <<probe, metadataFrame>>

NextMetadata ==
  \/ \E tokenId \in Tokens, up \in Upstreams : MetadataCall(tokenId, up)
  \/ MetadataTick

SpecMetadata == InitRetry /\ [][NextMetadata]_vars

\* some upstream call of the last getMarketMetadata call failed
FetchFailed ==
  /\ probe.fn = "getMarketMetadata" /\ ~probe.hit
  /\ \/ probe.upstream.threw
     \/ ~probe.upstream.tick.ok
     \/ ~probe.upstream.negRisk.ok
     \/ ~probe.upstream.feeRateBps.ok

Usable(entry) ==
  /\ entry.tickSize > 0
  /\ entry.negRisk \in BOOLEAN
  /\ entry.feeRateBps \in Nat

MaxOrphans == 2

\* probe: the sockets connect() created that this.ws no longer refers to and
\* whose listeners are still attached, by state; pending: one of the
\* connecting ones holds the unsettled connectPromise; crashed: a listener
\* threw
NoSockets ==
  [fn |-> "connect", connecting |-> 0, open |-> 0, pending |-> FALSE,
   crashed |-> FALSE]

Sockets == IF probe = NoProbe THEN NoSockets ELSE probe

\* this.ws is overwritten or set to null: its socket lives on
orphaned(w, o) ==
  IF w.sock = "connecting"
  THEN [o EXCEPT !.connecting = @ + 1, !.pending = w.connectPromise]
  ELSE IF w.sock = "open" THEN [o EXCEPT !.open = @ + 1]
  ELSE o

\* websocket-monitor.ts:93-102: the 'close' listener, of whichever socket
onClose(w) ==
  LET closed == [w EXCEPT !.isConnected = FALSE, !.sock = "null"]
  IN IF hasSubscriptions(closed) THEN attemptReconnect(closed) ELSE closed

\* websocket-monitor.ts:104-113 and 339-342: the connect promise is
\* rejected; the reconnect timers that awaited it call attemptReconnect
onReject(w) ==
  attemptReconnectTimes([w EXCEPT !.connectPromise = FALSE, !.timerWaiters = 0],
                        w.timerWaiters)

\* websocket-monitor.ts:80-87 and 378-393: the 'open' listener of a socket;
\* sendInitialSubscribe sends on this.ws, if there is one
onOpen(w) ==
  [w EXCEPT !.isConnected = TRUE, !.reconnectAttempts = 0,
            !.sent = IF w.sock = "null" THEN @ ELSE w.subscribedAssets]

socketFrame ==
  <<config, now, botStartTime, processedTrades, stats, inflight,
    sessionNotional, positions, lastProcessedTimestamp, processedTradeIds,
    poll, execLog, evicted, discarded, aborted, fills, lastCheck, retry>>

\* ensureConnected() called in state w made a new socket
connects(w) == ~w.isConnected /\ ~w.connectPromise

Running == ~Sockets.crashed

\* whether the orphan the event is of is the one holding the unsettled
\* connectPromise
holdsPromise ==
  {mine \in BOOLEAN : /\ mine => Sockets.pending
                      /\ (Sockets.pending /\ Sockets.connecting = 1) => mine}

\* websocket-monitor.ts:139-163: a caller registers an instrument
SockSubscribe(tokenId) ==
  /\ Running
  /\ tokenId \notin ws.subscribedAssets
  /\ LET o == IF connects(ws) THEN orphaned(ws, Sockets) ELSE Sockets
     IN /\ o.connecting + o.open <= MaxOrphans
        /\ ws' = subscribeToMarket(config, ws, tokenId).ws
        /\ probe' = o
  /\ UNCHANGED socketFrame

\* websocket-monitor.ts:80-87: the socket this.ws refers to opens
SockOpen ==
  /\ Running
  /\ ws.sock = "connecting"
  /\ ws' = [onOpen(ws) EXCEPT !.sock = "open", !.connectPromise = FALSE,
                              !.timerWaiters = 0]
  /\ probe' = Sockets
  /\ UNCHANGED socketFrame

\* websocket-monitor.ts:109-113: ten seconds after connect() the promise is
\* rejected if the monitor is not connected; the socket is left as it is
SockTimeout ==
  /\ Running
  /\ ws.connectPromise /\ ~ws.isConnected
  /\ ws' = onReject(ws)
  /\ ws'.timers <= MaxTimers
  /\ probe' = [Sockets EXCEPT !.pending = FALSE]
  /\ UNCHANGED socketFrame

\* websocket-monitor.ts:93-107: the socket this.ws refers to fails to
\* connect: 'error', then 'close'
SockFail ==
  /\ Running
  /\ ws.sock = "connecting"
  /\ LET closed == onClose(ws)
     IN ws' = IF ws.connectPromise THEN onReject(closed) ELSE closed
  /\ ws'.timers <= MaxTimers
  /\ probe' = Sockets
  /\ UNCHANGED socketFrame

\* websocket-monitor.ts:93-102: the open socket this.ws refers to closes
SockClose ==
  /\ Running
  /\ ws.sock = "open"
  /\ ws' = onClose(ws)
  /\ ws'.timers <= MaxTimers
  /\ probe' = Sockets
  /\ UNCHANGED socketFrame

\* websocket-monitor.ts:326-338: a reconnect timer fires
SockTimer ==
  /\ Running
  /\ ws.timers > 0
  /\ LET w  == [ws EXCEPT !.timers = @ - 1]
         o  == IF connects(w) THEN orphaned(w, Sockets) ELSE Sockets
         ec == ensureConnected(w)
     IN /\ o.connecting + o.open <= MaxOrphans
        /\ ws' = IF ec.pending THEN [ec.ws EXCEPT !.timerWaiters = @ + 1]
                 ELSE ec.ws
        /\ probe' = o
  /\ UNCHANGED socketFrame

\* websocket-monitor.ts:80-87: a socket this.ws no longer refers to opens;
\* sending on this.ws while it is connecting throws out of the listener
OrphanOpen ==
  /\ Running
  /\ Sockets.connecting > 0
  /\ \E mine \in holdsPromise :
       LET opened == onOpen(ws)
           o      == [Sockets EXCEPT !.connecting = @ - 1, !.open = @ + 1,
                                     !.pending = IF mine THEN FALSE ELSE @]
       IN IF ws.sock = "connecting"
          THEN /\ ws' = [opened EXCEPT !.sent = ws.sent]
               /\ probe' = [o EXCEPT !.crashed = TRUE]
          ELSE /\ ws' = IF mine
                        THEN [opened EXCEPT !.connectPromise = FALSE,
                                            !.timerWaiters = 0]
                        ELSE opened
               /\ probe' = o
  /\ UNCHANGED socketFrame

\* websocket-monitor.ts:93-107: a socket this.ws no longer refers to fails
\* to connect; its 'close' listener sets this.ws to null
OrphanFail ==
  /\ Running
  /\ Sockets.connecting > 0
  /\ \E mine \in holdsPromise :
       LET o      == orphaned(ws, [Sockets EXCEPT !.connecting = @ - 1,
                                                  !.pending = IF mine THEN FALSE ELSE @])
           closed == onClose(ws)
       IN /\ ws' = IF mine THEN onReject(closed) ELSE closed
          /\ probe' = o
  /\ ws'.timers <= MaxTimers
  /\ UNCHANGED socketFrame

\* websocket-monitor.ts:93-102: an open socket this.ws no longer refers to
\* closes
OrphanClose ==
  /\ Running
  /\ Sockets.open > 0
  /\ ws' = onClose(ws)
  /\ ws'.timers <= MaxTimers
  /\ probe' = orphaned(ws, [Sockets EXCEPT !.open = @ - 1])
  /\ UNCHANGED socketFrame

NextSocket ==
  \/ \E tokenId \in Tokens : SockSubscribe(tokenId)
  \/ SockOpen
  \/ SockTimeout
  \/ SockFail
  \/ SockClose
  \/ SockTimer
  \/ OrphanOpen
  \/ OrphanFail
  \/ OrphanClose

SpecSocket == InitRetry /\ [][NextSocket]_vars

\* C30: whenever the push monitor is connected, every registered
\* subscription target has been sent on the current connection.
C30_ConnectedMeansAllSent ==
  (ws.isConnected /\ Running) =>
    /\ ws.sock = "open"
    /\ ws.subscribedAssets \subseteq ws.sent

\* the sockets whose connection attempt is under way
Attempts == (IF ws.sock = "connecting" THEN 1 ELSE 0) + Sockets.connecting

\* C31: at most one push-channel connection attempt is in flight at any
\* time: callers that find the monitor disconnected share the pending
\* attempt and open no second socket.
C31_OneAttemptInFlight == Attempts <= 1

\* C32: reconnectAttempts never exceeds maxReconnectAttempts; at the
\* ceiling no further reconnect is scheduled; an open resets the counter
\* to 0.
C32_ReconnectsCapped ==
  /\ [](ws.reconnectAttempts <= maxReconnectAttempts)
  /\ [][/\ ws.reconnectAttempts >= maxReconnectAttempts => ws'.timers <= ws.timers
        /\ (ws'.isConnected /\ ~ws.isConnected) => ws'.reconnectAttempts = 0]_vars

\* the monitor has given up: the ceiling is reached, targets are
\* registered, it is disconnected and no timer is pending
C32_GaveUp ==
  /\ ws.reconnectAttempts = maxReconnectAttempts
  /\ ws.subscribedAssets # {}
  /\ ~ws.isConnected /\ ws.sock = "null" /\ ws.timers = 0
  /\ Attempts = 0

\* C38: at most one reconnect timer is pending at any time: a disconnect
\* or a failed connection attempt schedules one reconnect and increments
\* reconnectAttempts once.
C38_OneReconnectTimer ==
  /\ [](ws.timers <= 1)
  /\ [][/\ ws'.timers <= ws.timers + 1
        /\ ws'.reconnectAttempts <= ws.reconnectAttempts + 1]_vars

\* ------------------------------------------------ handleTradeMessage

\* config.targetWallet as configured
targetWallet == "0xAbC"

\* the maker and taker a last_trade_price message may name: the target
\* wallet in either case, another wallet, or none
Wallets == {"0xabc", "0xABC", "0xdef", "none"}

\* String.prototype.toLowerCase
toLowerCase(text) ==
  CASE text \in {"0xAbC", "0xABC"} -> "0xabc"
    [] OTHER -> text

\* a last_trade_price message of a venue trade, naming maker and taker
TradeMessages ==
  { [asset_id |-> v.asset, side |-> v.side, price |-> v.price, size |-> v.size,
     timestamp |-> CASE form = "ms" -> v.ts
                     [] form = "sec" -> v.ts \div MsPerSec
                     [] OTHER -> 0,
     maker |-> maker, taker |-> taker] :
       v \in VenueTrades, form \in {"ms", "sec", "none"},
       maker \in Wallets, taker \in Wallets }

\* websocket-monitor.ts:256
isMaker(message) ==
  message.maker # "none" /\ toLowerCase(message.maker) = toLowerCase(targetWallet)

\* websocket-monitor.ts:257
isTaker(message) ==
  message.taker # "none" /\ toLowerCase(message.taker) = toLowerCase(targetWallet)

\* websocket-monitor.ts:253-280: the calls of the trade handler a message
\* leads to, in whichever channel, at time t
handleTradeMessage(channel, message, t) ==
  IF ~isMaker(message) /\ ~isTaker(message) THEN <<>>
  ELSE <<wsTrade(message, t)>>

\* the deployment in either channel
InitChannel ==
  /\ config \in {[Deployment EXCEPT !.channel = c] : c \in {"market", "user"}}
  /\ Started

\* websocket-monitor.ts:247-249: a last_trade_price message arrives
ChannelMessage(message) ==
  /\ probe' = [fn |-> "handleTradeMessage", message |-> message,
               handed |-> handleTradeMessage(config.channel, message, now)]
  /\ UNCHANGED <<botVars, retry>>

NextChannel == \E message \in TradeMessages : ChannelMessage(message)

SpecChannel == InitChannel /\ [][NextChannel]_vars

\* C33: in market mode every last_trade_price event is handed to the
\* trade handler; in user mode only the events in which the target wallet
\* is maker or taker.
C33_MarketHandsEveryEvent ==
  probe.fn = "handleTradeMessage" =>
    /\ config.channel = "market" => Len(probe.handed) = 1
    /\ config.channel = "user" =>
         (Len(probe.handed) = 1 <=> (isMaker(probe.message) \/ isTaker(probe.message)))

\* ------------------------------------------------ lazy connection

\* websocket-monitor.ts:191-207
unsubscribeFromMarket(cfg, w, tokenId) ==
  IF cfg.channel # "market" THEN w
  ELSE IF ~w.isConnected \/ w.sock = "null" THEN w
  ELSE [w EXCEPT !.subscribedAssets = @ \ {tokenId}, !.sent = @ \ {tokenId}]

\* a caller withdraws an instrument
PushUnsubscribe(tokenId) ==
  /\ tokenId \in ws.subscribedAssets
  /\ ws' = unsubscribeFromMarket(config, ws, tokenId)
  /\ UNCHANGED <<pushFrame, probe>>

\* the push monitor with all its operations
NextLazy ==
  \/ \E tokenId \in Tokens : PushSubscribe(tokenId)
  \/ \E tokenId \in Tokens : PushUnsubscribe(tokenId)
  \/ PushOpen
  \/ PushConnectFail
  \/ PushClose
  \/ PushTimer

SpecLazy == InitRetry /\ [][NextLazy]_vars

\* C34: the push monitor never starts a connection attempt while its
\* subscription set is empty: it stays disconnected until the first
\* subscribe, and a disconnect with nothing registered schedules no
\* reconnect.
C34_NoAttemptWithoutSubscription ==
  /\ [](ws.sock = "connecting" => ws.subscribedAssets # {})
  /\ [][(ws.subscribedAssets = {} /\ ws'.subscribedAssets = {}) =>
          ws'.timers <= ws.timers]_vars

\* ------------------------------------------------ REST polling of a feed

\* the last second of the run
FeedEnd == 7

\* monitor.ts:30-42: what the activity feed answers at time t to a query
\* from startSeconds: of the wallet's trades that have happened at or after
\* that second, the limit newest, newest first, trades of one second in
\* either order
feedAnswers(t, startSeconds) ==
  LET eligible == {v \in MonitorTrades :
                     v.ts <= t /\ v.ts \div MsPerSec >= startSeconds}
      n        == Min(limit, Cardinality(eligible))
  IN { r \in [1..n -> eligible] :
         /\ \A i, j \in 1..n : i # j => r[i] # r[j]
         /\ \A i, j \in 1..n :
              i < j => r[i].ts \div MsPerSec >= r[j].ts \div MsPerSec
         /\ \A v \in eligible :
              (\A i \in 1..n : r[i] # v) =>
                 \A i \in 1..n : v.ts \div MsPerSec <= r[i].ts \div MsPerSec }

\* index.ts:95-96: a cycle whose fetch is answered
FeedPoll ==
  \E resp \in feedAnswers(now, startSecondsOf(lastProcessedTimestamp)) :
    MonitorPoll("ok", resp)

\* index.ts:95-96: a cycle whose fetch fails
FeedFail == MonitorPoll("fetchError", <<>>)

\* a second passes between two cycles
FeedTick ==
  /\ now < FeedEnd * MsPerSec
  /\ now' = now + MsPerSec
  /\ UNCHANGED <<probe, metadataFrame>>

NextFeed == FeedPoll \/ FeedFail \/ FeedTick

SpecFeed == InitRetry /\ [][NextFeed]_vars

\* C35: every trade of the target wallet later than the monitor's start is
\* handed to the handler by REST polling, trades sharing a timestamp and
\* bursts larger than the page included.  The watermark only passes trades
\* that will never be handed later, so: no trade that has happened later
\* than the start is at or below the watermark without having been handed.
C35_NoTradePassedOver ==
  probe.fn = "poll" =>
    \A v \in MonitorTrades :
      (/\ v.ts <= now
       /\ restTradeOf(v).timestamp > botStartTime
       /\ restTradeOf(v).timestamp <= lastProcessedTimestamp)
        => InSeq(restTradeOf(v), probe.handed)

\* C36: two distinct trades (different txHash) are each processed: a trade
\* not older than the start is discarded as a duplicate only when its own
\* txHash is among the processed keys.
C36_DistinctTradesBothProcessed ==
  (/\ probe.fn = "handleNewTrade"
   /\ ~probe.accepted
   /\ ~predatesStart(probe.trade, botStartTime))
    => InSeq(probe.trade.txHash, probe.before)

\* ------------------------------------------------ close()

\* probe: close() was called; closing: the socket it closed has yet to
\* emit its 'close'
NoShutdown == [fn |-> "close", closed |-> FALSE, closing |-> FALSE]

Shutdown == IF probe = NoProbe THEN NoShutdown ELSE probe

\* websocket-monitor.ts:346-354
close(w) == [w EXCEPT !.sock = "null", !.isConnected = FALSE]

\* the run is followed up to the first socket created after close()
Followed == ~(Shutdown.closed /\ ws.sock # "null")

\* websocket-monitor.ts:139-163: a caller registers an instrument, as
\* callers do until close()
ShutSubscribe(tokenId) ==
  /\ ~Shutdown.closed
  /\ tokenId \notin ws.subscribedAssets
  /\ ws' = subscribeToMarket(config, ws, tokenId).ws
  /\ probe' = Shutdown
  /\ UNCHANGED socketFrame

\* websocket-monitor.ts:191-207: a caller withdraws an instrument
ShutUnsubscribe(tokenId) ==
  /\ ~Shutdown.closed
  /\ tokenId \in ws.subscribedAssets
  /\ ws' = unsubscribeFromMarket(config, ws, tokenId)
  /\ probe' = Shutdown
  /\ UNCHANGED socketFrame

\* websocket-monitor.ts:80-87: the socket opens
ShutOpen ==
  /\ Followed
  /\ ws.sock = "connecting"
  /\ ws' = [onOpen(ws) EXCEPT !.sock = "open", !.connectPromise = FALSE,
                              !.timerWaiters = 0]
  /\ probe' = Shutdown
  /\ UNCHANGED socketFrame

\* websocket-monitor.ts:93-107: the connection attempt fails
ShutFail ==
  /\ Followed
  /\ ws.sock = "connecting"
  /\ ws' = onReject(onClose(ws))
  /\ ws'.timers <= MaxTimers
  /\ probe' = Shutdown
  /\ UNCHANGED socketFrame

\* websocket-monitor.ts:93-102: the venue closes the open socket
ShutSocketClose ==
  /\ Followed
  /\ ws.sock = "open"
  /\ ws' = onClose(ws)
  /\ ws'.timers <= MaxTimers
  /\ probe' = Shutdown
  /\ UNCHANGED socketFrame

\* websocket-monitor.ts:326-338: a reconnect timer fires
ShutTimer ==
  /\ Followed
  /\ ws.timers > 0
  /\ LET ec == ensureConnected([ws EXCEPT !.timers = @ - 1])
     IN ws' = IF ec.pending THEN [ec.ws EXCEPT !.timerWaiters = @ + 1]
              ELSE ec.ws
  /\ probe' = Shutdown
  /\ UNCHANGED socketFrame

\* index.ts:184-193 and websocket-monitor.ts:346-354: stop() calls close()
ShutClose ==
  /\ ~Shutdown.closed
  /\ ws' = close(ws)
  /\ probe' = [Shutdown EXCEPT !.closed = TRUE, !.closing = ws.sock # "null"]
  /\ UNCHANGED socketFrame

\* websocket-monitor.ts:93-107: the socket close() closed emits 'close',
\* after 'error' if it had not opened
ShutCloseEvent ==
  /\ Followed
  /\ Shutdown.closing
  /\ ws' = IF ws.connectPromise THEN onReject(onClose(ws)) ELSE onClose(ws)
  /\ ws'.timers <= MaxTimers
  /\ probe' = [Shutdown EXCEPT !.closing = FALSE]
  /\ UNCHANGED socketFrame

NextShutdown ==
  \/ \E tokenId \in Tokens : ShutSubscribe(tokenId)
  \/ \E tokenId \in Tokens : ShutUnsubscribe(tokenId)
  \/ ShutOpen
  \/ ShutFail
  \/ ShutSocketClose
  \/ ShutTimer
  \/ ShutClose
  \/ ShutCloseEvent

SpecShutdown == InitRetry /\ [][NextShutdown]_vars

\* C37: after close() the push monitor stays disconnected: no reconnect is
\* scheduled and no connection is opened, subscriptions registered or not.
C37_StaysClosed ==
  [][(probe.fn = "close" /\ probe.closed) =>
       /\ ws'.timers <= ws.timers
       /\ ws'.sock = "null"
       /\ ~ws'.isConnected]_vars

\* C39: every price validatePrice returns, and so every submitted order
\* price, is an integer multiple of the instrument's tick size, for every
\* input price and tick size.
C39_MultipleOfTick ==
  /\ probe.fn = "validatePrice" => probe.result % probe.tickSize = 0
  /\ probe.fn = "submitOrder" => probe.price % probe.tickSize = 0

\* C40: in every reachable state stats.totalVolume equals the risk manager's
\* sessionNotional and tradesCopied + tradesFailed is at most tradesDetected,
\* and no step decreases sessionNotional.
C40_StatsAgree ==
  /\ [](/\ stats.totalVolume = sessionNotional
        /\ stats.tradesCopied + stats.tradesFailed <= stats.tradesDetected)
  /\ [][sessionNotional' >= sessionNotional]_vars

\* a session with a copied trade, a failed one and one neither copied nor failed
C40_CopiedAndFailed ==
  /\ stats.tradesCopied >= 1
  /\ stats.tradesFailed >= 1
  /\ stats.tradesCopied + stats.tradesFailed < stats.tradesDetected
  /\ stats.totalVolume > 0

====
